---- MODULE Spec2Model ----
(***************************************************************************)
(* Arabic-Localization-Helper: the safety classifier, the dictionary      *)
(* resolution and the per-format rewriters (JSON tree walk, HTML passes,   *)
(* JS/TS literal rewriter) and the per-file driver that writes the        *)
(* "-ar" sibling files.                                                    *)
(*                                                                         *)
(* Text is a sequence of one-character strings.  Offsets are the 0-based  *)
(* offsets of JavaScript strings; SubSeq positions are 1-based.            *)
(***************************************************************************)
EXTENDS Integers, Sequences, FiniteSets, TLC

VARIABLES dict, cache, call, fsys, run

vars == <<dict, cache, call, fsys, run>>

(***************************************************************************)
(* Characters and character classes of the regular expressions.           *)
(***************************************************************************)
LowerSeq == <<"a","b","c","d","e","f","g","h","i","j","k","l","m",
              "n","o","p","q","r","s","t","u","v","w","x","y","z">>

UpperSeq == <<"A","B","C","D","E","F","G","H","I","J","K","L","M",
              "N","O","P","Q","R","S","T","U","V","W","X","Y","Z">>

LowerCh == { LowerSeq[i] : i \in 1..Len(LowerSeq) }

UpperCh == { UpperSeq[i] : i \in 1..Len(UpperSeq) }

DigitCh == {"0","1","2","3","4","5","6","7","8","9"}

\* \s of the regular expressions and the characters String.prototype.trim removes
WsCh == {" ", "\t", "\n", "\r", "\f"}

\* [a-zA-Z0-9_]
IdentCh == LowerCh \cup UpperCh \cup DigitCh \cup {"_"}

\* [\d\s\-_.,;:!?()]
NumPunctCh == DigitCh \cup WsCh \cup {"-", "_", ".", ",", ";", ":", "!", "?", "(", ")"}

\* [.,;:!?()\[\]{}'"]
PunctCh == {".", ",", ";", ":", "!", "?", "(", ")", "[", "]", "{", "}", "'", "\""}

(***************************************************************************)
(* String primitives of the JavaScript runtime, as the code uses them.     *)
(***************************************************************************)
toLowerChar(c) ==
    IF c \in UpperCh
    THEN LowerSeq[CHOOSE i \in 1..Len(UpperSeq) : UpperSeq[i] = c]
    ELSE c

\* s.startsWith(p, off): p occurs in s at 0-based offset off
MatchesAt(s, p, off) ==
    /\ off >= 0
    /\ off + Len(p) <= Len(s)
    /\ \A i \in 1..Len(p) : s[off + i] = p[i]

startsWith(s, p) == MatchesAt(s, p, 0)

\* a lower-case pattern p of a regular expression with the i flag occurs in s
\* at offset off
MatchesAtNoCase(s, p, off) ==
    /\ off >= 0
    /\ off + Len(p) <= Len(s)
    /\ \A i \in 1..Len(p) : toLowerChar(s[off + i]) = p[i]

\* s.indexOf(p): the least offset of an occurrence, -1 when there is none
indexOf(s, p) ==
    LET hits == { off \in 0..(Len(s) - Len(p)) : MatchesAt(s, p, off) }
    IN  IF hits = {} THEN -1 ELSE CHOOSE off \in hits : \A o \in hits : off <= o

\* s.lastIndexOf(p): the greatest offset of an occurrence, -1 when there is none
lastIndexOf(s, p) ==
    LET hits == { off \in 0..(Len(s) - Len(p)) : MatchesAt(s, p, off) }
    IN  IF hits = {} THEN -1 ELSE CHOOSE off \in hits : \A o \in hits : off >= o

includes(s, p) == indexOf(s, p) # -1

\* s.substring(from, to) and s.substring(from)
substring(s, from, to) == SubSeq(s, from + 1, to)

substringFrom(s, from) == SubSeq(s, from + 1, Len(s))

\* the length of the match of /^\s*/ and of /\s*$/
LeadingWs(s) ==
    LET stops == { i \in 1..Len(s) : s[i] \notin WsCh }
    IN  IF stops = {} THEN Len(s)
        ELSE (CHOOSE i \in stops : \A j \in stops : i <= j) - 1

TrailingWs(s) ==
    LET stops == { i \in 1..Len(s) : s[i] \notin WsCh }
    IN  IF stops = {} THEN Len(s)
        ELSE Len(s) - (CHOOSE i \in stops : \A j \in stops : i >= j)

\* s.trim()
trim(s) ==
    IF LeadingWs(s) = Len(s) THEN << >>
    ELSE SubSeq(s, LeadingWs(s) + 1, Len(s) - TrailingWs(s))

\* s.toLowerCase()
toLowerCase(s) == [i \in 1..Len(s) |-> toLowerChar(s[i])]

\* s.split(/\s+/): the pieces between the maximal whitespace runs; a run at
\* either end leaves an empty piece there
RECURSIVE SplitFrom(_, _, _)
SplitFrom(s, i, cur) ==
    IF i > Len(s) THEN <<cur>>
    ELSE IF s[i] \in WsCh
         THEN IF i > 1 /\ s[i - 1] \in WsCh
              THEN SplitFrom(s, i + 1, cur)
              ELSE <<cur>> \o SplitFrom(s, i + 1, << >>)
         ELSE SplitFrom(s, i + 1, Append(cur, s[i]))

splitWs(s) == SplitFrom(s, 1, << >>)

\* parts.join(' ')
RECURSIVE joinSp(_)
joinSp(parts) ==
    IF Len(parts) = 0 THEN << >>
    ELSE IF Len(parts) = 1 THEN parts[1]
         ELSE parts[1] \o <<" ">> \o joinSp(Tail(parts))

\* word.replace(/[.,;:!?()\[\]{}'"]/g, '')
stripPunct(word) == SelectSeq(word, LAMBDA c : c \notin PunctCh)

\* s.replace(pat, rep) with a string pattern: the first occurrence only
replaceFirst(s, pat, rep) ==
    LET off == indexOf(s, pat)
    IN  IF off = -1 THEN s
        ELSE substring(s, 0, off) \o rep \o substringFrom(s, off + Len(pat))

\* s.replace(/c/g, rep) for a one-character pattern c
RECURSIVE replaceAllChar(_, _, _)
replaceAllChar(s, c, rep) ==
    IF s = << >> THEN << >>
    ELSE (IF Head(s) = c THEN rep ELSE <<Head(s)>>) \o replaceAllChar(Tail(s), c, rep)

RECURSIVE Concat(_)
Concat(parts) ==
    IF parts = << >> THEN << >> ELSE Head(parts) \o Concat(Tail(parts))

(***************************************************************************)
(* Dictionaries and the translation cache.  A dictionary argument is      *)
(* [given, entries]: given is FALSE for an omitted argument.               *)
(***************************************************************************)
EmptyMap == << >>

Undefined == [given |-> FALSE, entries |-> EmptyMap]

Dict(entries) == [given |-> TRUE, entries |-> entries]

\* if (dict[k]): the entry exists and its value is a non-empty string
Truthy(d, k) == k \in DOMAIN d.entries /\ d.entries[k] # << >>

\* cache.has(k), cache.get(k), cache.set(k, v)
cacheHas(c, k) == k \in DOMAIN c

cacheSet(c, k, v) == [x \in DOMAIN c \cup {k} |-> IF x = k THEN v ELSE c[x]]

(***************************************************************************)
(* SafetyClassifier: isSafeToTranslate(text, dict).                        *)
(***************************************************************************)
\* /^https?:\/\//i.test(text) || /^www\./i.test(text) || /^[a-z]+:\/\//i.test(text)
LooksLikeUrl(text) ==
    LET low == toLowerCase(text)
    IN  \/ startsWith(low, <<"h","t","t","p",":","/","/">>)
        \/ startsWith(low, <<"h","t","t","p","s",":","/","/">>)
        \/ startsWith(low, <<"w","w","w",".">>)
        \/ \E n \in 1..Len(low) :
              /\ \A i \in 1..n : low[i] \in LowerCh
              /\ MatchesAt(low, <<":","/","/">>, n)

\* text.includes('${') || text.includes('function(') || text.includes('=>')
\*   || text.includes('()') || text.includes('{}')
HasCodePattern(text) ==
    \/ includes(text, <<"$","{">>)
    \/ includes(text, <<"f","u","n","c","t","i","o","n","(">>)
    \/ includes(text, <<"=",">">>)
    \/ includes(text, <<"(",")">>)
    \/ includes(text, <<"{","}">>)

\* /^[\d\s\-_.,;:!?()]+$/.test(text)
NumericOrSpecial(text) ==
    Len(text) >= 1 /\ \A i \in 1..Len(text) : text[i] \in NumPunctCh

\* /^[a-z][a-zA-Z0-9_]*$/.test(text)
LowerIdentifier(text) ==
    /\ Len(text) >= 1
    /\ text[1] \in LowerCh
    /\ \A i \in 2..Len(text) : text[i] \in IdentCh

\* /^[A-Z][a-zA-Z0-9_]*$/.test(text)
UpperIdentifier(text) ==
    /\ Len(text) >= 1
    /\ text[1] \in UpperCh
    /\ \A i \in 2..Len(text) : text[i] \in IdentCh

\* /\d/.test(text) || text.includes('_')
HasDigitOrUnderscore(text) ==
    \E i \in 1..Len(text) : text[i] \in DigitCh \/ text[i] = "_"

\* the identifier test placed before the dictionary test
isSafeToTranslate_IdentifierFirst(text, d) ==
    IF text = << >> \/ trim(text) = << >> THEN FALSE
    ELSE IF LooksLikeUrl(text) THEN FALSE
    ELSE IF HasCodePattern(text) THEN FALSE
    ELSE IF NumericOrSpecial(text) THEN FALSE
    ELSE IF LowerIdentifier(text) THEN FALSE
    ELSE IF d.given /\ Truthy(d, text) THEN TRUE
    ELSE IF d.given /\ Truthy(d, toLowerCase(text)) THEN TRUE
    ELSE IF UpperIdentifier(text) THEN ~HasDigitOrUnderscore(text)
    ELSE TRUE

isSafeToTranslate(text, d) ==
    IF text = << >> \/ trim(text) = << >> THEN FALSE
    ELSE IF LooksLikeUrl(text) THEN FALSE
    ELSE IF HasCodePattern(text) THEN FALSE
    ELSE IF NumericOrSpecial(text) THEN FALSE
    ELSE IF d.given /\ Truthy(d, text) THEN TRUE
    ELSE IF d.given /\ Truthy(d, toLowerCase(text)) THEN TRUE
    ELSE IF LowerIdentifier(text) THEN FALSE
    ELSE IF UpperIdentifier(text) THEN ~HasDigitOrUnderscore(text)
    ELSE TRUE

\* isWhitespaceOnly: /^\s*$/.test(text)
isWhitespaceOnly(text) == \A i \in 1..Len(text) : text[i] \in WsCh

(***************************************************************************)
(* Inputs of the classifier runs.                                          *)
(***************************************************************************)
MaxTextLen == 3

RECURSIVE SeqsUpTo(_, _)
SeqsUpTo(S, n) ==
    IF n = 0 THEN { << >> }
    ELSE LET shorter == SeqsUpTo(S, n - 1)
         IN  shorter \cup { Append(s, c) : s \in { t \in shorter : Len(t) = n - 1 }, c \in S }

ClassifierAlphabet == {"a", "B", "7", "_", " ", "(", ")", "-"}

userName == <<"u","s","e","r","N","a","m","e">>

ClassifierSamples ==
    { userName,
      <<"u","s","e","r","n","a","m","e">>,
      <<"h","t","t","p",":","/","/","a">>,
      <<"H","T","T","P","S",":","/","/">>,
      <<"W","w","w",".","a">>,
      <<"f","t","p",":","/","/","a">>,
      <<"a",":","/","/">>,
      <<":","/","/","a">>,
      <<"a","7",":","/","/">>,
      <<"$","{","a","}">>,
      <<"a","=",">","B">>,
      <<"f","u","n","c","t","i","o","n","(">>,
      <<"f","u","n","c","t","i","o","n"," ","(">>,
      <<"{","}">>,
      <<"B"," ","{","}">>,
      <<"1","2",".","5",",","!","?",";",":">>,
      <<"H","e","l","l","o",","," ","W","o","r","l","d","!">>,
      <<"S","a","v","e">>,
      <<"S","A","V","E","_","1">>,
      <<"x","y","z","-","1","2","3">>,
      <<"\t","\n">> }

ClassifierTexts == SeqsUpTo(ClassifierAlphabet, MaxTextLen) \cup ClassifierSamples

\* stand-ins for Arabic text: no character of them is a Latin letter
Ar1 == <<"#","1">>

Ar2 == <<"#","2">>

Ar3 == <<"#","3">>

ClassifierEntries ==
    (<<"a">> :> Ar1) @@ (<<"b","_","7">> :> Ar3)
    @@ (userName :> Ar1) @@ (<<"u","s","e","r","n","a","m","e">> :> Ar2)
    @@ (<<"a","(",")">> :> Ar3)

Restrict(f, K) == [k \in K |-> f[k]]

ClassifierDicts ==
    { Dict(Restrict(ClassifierEntries, K)) : K \in SUBSET DOMAIN ClassifierEntries }
    \cup { Undefined }

Idle == [fn |-> "none"]

NoRun == [pc |-> "none"]

NoFiles == << >>

InitClassifier ==
    /\ dict \in ClassifierDicts
    /\ cache = EmptyMap
    /\ call = Idle
    /\ fsys = NoFiles
    /\ run = NoRun

\* one call isSafeToTranslate(text, dict); the function is pure, so a run is one call
Classify ==
    \E text \in ClassifierTexts :
        /\ call = Idle
        /\ call' = [fn |-> "isSafeToTranslate", text |-> text,
                    result |-> isSafeToTranslate(text, dict)]
        /\ UNCHANGED <<dict, cache, fsys, run>>

NextClassifier == Classify

SpecClassifier == InitClassifier /\ [][NextClassifier]_vars

(***************************************************************************)
(* C10.  The decision list of the classifier, rule by rule.                *)
(***************************************************************************)
IsKey(d, text) == d.given /\ text \in DOMAIN d.entries

RuleApplies(n, text, d) ==
    CASE n = 1 -> \A i \in 1..Len(text) : text[i] \in WsCh
      [] n = 2 -> LooksLikeUrl(text)
      [] n = 3 -> HasCodePattern(text)
      [] n = 4 -> NumericOrSpecial(text)
      [] n = 5 -> IsKey(d, text) \/ IsKey(d, toLowerCase(text))
      [] n = 6 -> LowerIdentifier(text)
      [] n = 7 -> UpperIdentifier(text)
      [] n = 8 -> TRUE

RuleOutcome(n, text) ==
    CASE n \in {1, 2, 3, 4, 6} -> FALSE
      [] n = 5 -> TRUE
      [] n = 7 -> ~HasDigitOrUnderscore(text)
      [] n = 8 -> TRUE

FirstRule(text, d) ==
    CHOOSE n \in 1..8 :
        RuleApplies(n, text, d) /\ \A m \in 1..(n - 1) : ~RuleApplies(m, text, d)

translateWord(word, d) ==
    LET lowerWord      == toLowerCase(word)
        cleanWord      == stripPunct(word)
        cleanLowerWord == toLowerCase(cleanWord)
    IN  IF Truthy(d, word) THEN d.entries[word]
        ELSE IF Truthy(d, lowerWord) THEN d.entries[lowerWord]
        ELSE IF cleanWord # << >> /\ cleanWord # word /\ Truthy(d, cleanWord)
             THEN replaceFirst(word, cleanWord, d.entries[cleanWord])
        ELSE IF cleanWord # << >> /\ cleanWord # word /\ Truthy(d, cleanLowerWord)
             THEN replaceFirst(word, cleanWord, d.entries[cleanLowerWord])
        ELSE word

\* the callback of words.map(...) in the literal walk: exact and
\* punctuation-stripped lookups only
translateWordExact(word, d) ==
    LET cleanWord == stripPunct(word)
    IN  IF Truthy(d, word) THEN d.entries[word]
        ELSE IF cleanWord # << >> /\ cleanWord # word /\ Truthy(d, cleanWord)
             THEN replaceFirst(word, cleanWord, d.entries[cleanWord])
        ELSE word

\* text.split(/\s+/).map(translateWord).join(' ')
translateWords(text, d) ==
    LET words == splitWs(text)
    IN  joinSp([i \in 1..Len(words) |-> translateWord(words[i], d)])

translateWordsExact(text, d) ==
    LET words == splitWs(text)
    IN  joinSp([i \in 1..Len(words) |-> translateWordExact(words[i], d)])

\* the result of a resolver: the text it returns and the cache it leaves
Resolved(text, c) == [text |-> text, cache |-> c]

(***************************************************************************)
(* JsonTreeTranslator.  A JSON value is [t, s, keys, kids]: t is "str" (s  *)
(* the text), "num" or "bool" (s the literal), "null", "arr" (kids the     *)
(* elements) or "obj" (keys the property names in enumeration order, kids  *)
(* the property values in the same order).                                 *)
(***************************************************************************)
JStr(text) == [t |-> "str", s |-> text, keys |-> << >>, kids |-> << >>]

JNum(digits) == [t |-> "num", s |-> digits, keys |-> << >>, kids |-> << >>]

JBool(word) == [t |-> "bool", s |-> word, keys |-> << >>, kids |-> << >>]

JNull == [t |-> "null", s |-> << >>, keys |-> << >>, kids |-> << >>]

JArr(items) == [t |-> "arr", s |-> << >>, keys |-> << >>, kids |-> items]

JObj(keys, values) == [t |-> "obj", s |-> << >>, keys |-> keys, kids |-> values]

\* the string branch of translateObject
translateString(obj, d, c) ==
    IF cacheHas(c, obj) THEN Resolved(c[obj], c)
    ELSE IF Truthy(d, obj) THEN Resolved(d.entries[obj], cacheSet(c, obj, d.entries[obj]))
    ELSE IF Truthy(d, toLowerCase(obj))
         THEN Resolved(d.entries[toLowerCase(obj)],
                       cacheSet(c, obj, d.entries[toLowerCase(obj)]))
    ELSE LET translation == translateWords(obj, d)
         IN  Resolved(translation,
                      IF translation # obj THEN cacheSet(c, obj, translation) ELSE c)

\* the string branch of the bundled-dictionary translateObject: dict[obj] || obj
translateStringBundled(obj, d, c) ==
    IF cacheHas(c, obj) THEN Resolved(c[obj], c)
    ELSE IF Truthy(d, obj) THEN Resolved(d.entries[obj], cacheSet(c, obj, d.entries[obj]))
    ELSE Resolved(obj, c)

RECURSIVE translateObject(_, _, _, _), translateItems(_, _, _, _)

\* typeof obj === 'object' tested without Array.isArray before it: an array
\* comes back as a plain object whose property names are its indices
translateObject_ArrayAsObject(obj, d, c, bundled) ==
    IF obj.t = "str"
    THEN LET r == IF bundled THEN translateStringBundled(obj.s, d, c)
                  ELSE translateString(obj.s, d, c)
         IN  [val |-> JStr(r.text), cache |-> r.cache]
    ELSE IF obj.t \in {"arr", "obj"}
    THEN LET r == translateItems(obj.kids, d, c, bundled)
         IN  [val |-> JObj(IF obj.t = "arr"
                           THEN [i \in 1..Len(obj.kids) |-> <<"#">>]
                           ELSE obj.keys, r.val),
              cache |-> r.cache]
    ELSE [val |-> obj, cache |-> c]

\* translateObject(obj, dict, cache): the translated value and the cache after
\* it; bundled selects the module that looks up the bundled dictionary only
translateObject(obj, d, c, bundled) ==
    IF obj.t = "str"
    THEN LET r == IF bundled THEN translateStringBundled(obj.s, d, c)
                  ELSE translateString(obj.s, d, c)
         IN  [val |-> JStr(r.text), cache |-> r.cache]
    ELSE IF obj.t = "arr"
    THEN LET r == translateItems(obj.kids, d, c, bundled)
         IN  [val |-> JArr(r.val), cache |-> r.cache]
    ELSE IF obj.t = "obj"
    THEN LET r == translateItems(obj.kids, d, c, bundled)
         IN  [val |-> JObj(obj.keys, r.val), cache |-> r.cache]
    ELSE [val |-> obj, cache |-> c]

\* obj.map(item => translateObject(item, dict, cache)) and the for-in loop
\* translated[key] = translateObject(obj[key], dict, cache): the values in
\* order, each call seeing the cache the previous one left
translateItems(items, d, c, bundled) ==
    IF Len(items) = 0 THEN [val |-> << >>, cache |-> c]
    ELSE LET first == translateObject(Head(items), d, c, bundled)
             rest  == translateItems(Tail(items), d, first.cache, bundled)
         IN  [val |-> <<first.val>> \o rest.val, cache |-> rest.cache]

(***************************************************************************)
(* HtmlTranslator: translateHtml(content, cache, dict).                    *)
(***************************************************************************)
Min(S) == CHOOSE x \in S : \A y \in S : x <= y

NoMatch == [found |-> FALSE, at |-> 0, end |-> 0, group |-> << >>]

Match(at, end, group) == [found |-> TRUE, at |-> at, end |-> end, group |-> group]

QuoteCh == {"\"", "'"}

\* the leftmost match of /<html\s*([^>]*)>/i in s: the offsets [at, end) of the
\* match and the captured attributes
HtmlTagMatch(s) ==
    LET starts == { p \in 0..(Len(s) - 5) :
                      /\ MatchesAtNoCase(s, <<"<","h","t","m","l">>, p)
                      /\ \E q \in (p + 5)..(Len(s) - 1) : s[q + 1] = ">" }
    IN  IF starts = {} THEN NoMatch
        ELSE LET p     == Min(starts)
                 gt    == Min({ q \in (p + 5)..(Len(s) - 1) : s[q + 1] = ">" })
                 inner == substring(s, p + 5, gt)
             IN  Match(p, gt + 1, substringFrom(inner, LeadingWs(inner)))

\* name\s*=\s*["']([^"']*)["'] with the i flag, tried at offset p of s
AttrMatchAt(s, name, p) ==
    IF ~MatchesAtNoCase(s, name, p) THEN NoMatch
    ELSE LET i1 == p + Len(name) + LeadingWs(substringFrom(s, p + Len(name)))
         IN  IF ~MatchesAt(s, <<"=">>, i1) THEN NoMatch
             ELSE LET i2 == i1 + 1 + LeadingWs(substringFrom(s, i1 + 1))
                  IN  IF i2 >= Len(s) \/ s[i2 + 1] \notin QuoteCh THEN NoMatch
                      ELSE LET closes == { j \in (i2 + 1)..(Len(s) - 1) : s[j + 1] \in QuoteCh }
                           IN  IF closes = {} THEN NoMatch
                               ELSE Match(p, Min(closes) + 1,
                                          substring(s, i2 + 1, Min(closes)))

\* the leftmost match at an offset >= from
AttrMatch(s, name, from) ==
    LET starts == { p \in from..Len(s) : AttrMatchAt(s, name, p).found }
    IN  IF starts = {} THEN NoMatch ELSE AttrMatchAt(s, name, Min(starts))

\* name="value"
AttrText(name, value) == name \o <<"=", "\"">> \o value \o <<"\"">>

a_dir == <<"d","i","r">>

a_lang == <<"l","a","n","g">>

v_rtl == <<"r","t","l">>

v_ar == <<"a","r">>

\* "update or add" one attribute in the captured attributes of the html tag
setRootAttr(attributes, name, value) ==
    LET m == AttrMatch(attributes, name, 0)
    IN  IF m.found
        THEN substring(attributes, 0, m.at) \o AttrText(name, value)
             \o substringFrom(attributes, m.end)
        ELSE trim(attributes) \o (IF trim(attributes) # << >> THEN <<" ">> ELSE << >>)
             \o AttrText(name, value)

\* the replacement of the html tag: `<html ${updatedAttributes.trim()}>`
rootTag(attributes) ==
    <<"<","h","t","m","l"," ">>
    \o trim(setRootAttr(setRootAttr(attributes, a_dir, v_rtl), a_lang, v_ar))
    \o <<">">>

\* result.replace(/<html\s*([^>]*)>/i, ...)
injectRootAttributes(content) ==
    LET m == HtmlTagMatch(content)
    IN  IF ~m.found THEN content
        ELSE substring(content, 0, m.at) \o rootTag(m.group) \o substringFrom(content, m.end)

\* translateText(text): the translation and the cache after it
translateText(text, d, c) ==
    IF text = << >> \/ isWhitespaceOnly(text) THEN Resolved(text, c)
    ELSE IF cacheHas(c, text) THEN Resolved(c[text], c)
    ELSE IF ~isSafeToTranslate(text, d) THEN Resolved(text, c)
    ELSE IF Truthy(d, text) THEN Resolved(d.entries[text], cacheSet(c, text, d.entries[text]))
    ELSE IF Truthy(d, toLowerCase(text))
         THEN Resolved(d.entries[toLowerCase(text)],
                       cacheSet(c, text, d.entries[toLowerCase(text)]))
    ELSE LET translated == translateWords(text, d)
         IN  Resolved(translated,
                      IF translated # text THEN cacheSet(c, text, translated) ELSE c)

\* lastScript > lastScriptClose || lastStyle > lastStyleClose
insideScriptOrStyle(beforeMatch) ==
    \/ lastIndexOf(beforeMatch, <<"<","s","c","r","i","p","t">>)
         > lastIndexOf(beforeMatch, <<"<","/","s","c","r","i","p","t",">">>)
    \/ lastIndexOf(beforeMatch, <<"<","s","t","y","l","e">>)
         > lastIndexOf(beforeMatch, <<"<","/","s","t","y","l","e",">">>)

\* the leftmost match of />([^stop]+)</ at an offset >= from: a '>' followed by
\* one or more characters outside stop and then '<'; stop holds '<'
TextNodeMatch(s, stop, from) ==
    LET starts == { p \in from..(Len(s) - 3) :
                      /\ s[p + 1] = ">"
                      /\ s[p + 2] \notin stop
                      /\ \E q \in (p + 2)..(Len(s) - 1) :
                            /\ s[q + 1] = "<"
                            /\ \A i \in (p + 1)..(q - 1) : s[i + 1] \notin stop }
    IN  IF starts = {} THEN NoMatch
        ELSE LET p == Min(starts)
                 q == Min({ q \in (p + 2)..(Len(s) - 1) : s[q + 1] = "<" })
             IN  Match(p, q + 1, substring(s, p + 1, q))

\* one call of a pass's callback: the offset of the match, the matched text,
\* the text put in its place, the candidate handed to translateText and
\* whether the cache held the candidate at that moment
Edit(at, old, new, candidate, cached) ==
    [at |-> at, old |-> old, new |-> new, candidate |-> candidate, cached |-> cached]

\* Op(v), with v computed once
With(v, Op(_)) == CHOOSE r \in { Op(x) : x \in {v} } : TRUE

\* result.indexOf(match): the offset the callback uses
textNodeOffset(result, m) == indexOf(result, substring(result, m.at, m.end))

\* textNodeReplacement returning the translation without the whitespace
\* around it
textNodeReplacement_Trimmed(result, m, d, c) ==
    IF insideScriptOrStyle(substring(result, 0, textNodeOffset(result, m)))
       \/ trim(m.group) = << >>
    THEN Resolved(substring(result, m.at, m.end), c)
    ELSE With(translateText(trim(m.group), d, c), LAMBDA r :
             Resolved(<<">">> \o r.text \o <<"<">>, r.cache))

\* the callback of result.replace(/>([^<]+)</g, ...) for the match m
textNodeReplacement(result, m, d, c) ==
    LET textContent == m.group
        beforeMatch == substring(result, 0, textNodeOffset(result, m))
        old         == substring(result, m.at, m.end)
        trimmed     == trim(textContent)
    IN  IF insideScriptOrStyle(beforeMatch) THEN Resolved(old, c)
        ELSE IF trimmed = << >> \/ isWhitespaceOnly(trimmed) THEN Resolved(old, c)
        ELSE With(translateText(trimmed, d, c), LAMBDA r :
                 Resolved(<<">">> \o substring(textContent, 0, LeadingWs(textContent))
                          \o r.text
                          \o substringFrom(textContent,
                                           Len(textContent) - TrailingWs(textContent))
                          \o <<"<">>,
                          r.cache))

\* result.replace(/>([^<]+)</g, ...) from offset from on: the rewritten rest
\* of result, the cache after it and the replacements in order
RECURSIVE replaceTextNodes(_, _, _, _)
replaceTextNodes(result, from, d, c) ==
    With(TextNodeMatch(result, {"<"}, from), LAMBDA m :
        IF ~m.found
        THEN [text |-> substringFrom(result, from), cache |-> c, edits |-> << >>]
        ELSE With(textNodeReplacement(result, m, d, c), LAMBDA r :
             With(replaceTextNodes(result, m.end, d, r.cache), LAMBDA rest :
                 [text  |-> substring(result, from, m.at) \o r.text \o rest.text,
                  cache |-> rest.cache,
                  edits |-> <<Edit(m.at, substring(result, m.at, m.end), r.text,
                                   trim(m.group), cacheHas(c, trim(m.group)))>>
                            \o rest.edits])))

\* result.replace(/name\s*=\s*["']([^"']*)["']/gi, ...) from offset from on
RECURSIVE replaceAttribute(_, _, _, _, _)
replaceAttribute(result, name, from, d, c) ==
    With(AttrMatch(result, name, from), LAMBDA m :
        IF ~m.found
        THEN [text |-> substringFrom(result, from), cache |-> c, edits |-> << >>]
        ELSE With(translateText(m.group, d, c), LAMBDA r :
             With(replaceAttribute(result, name, m.end, d, r.cache), LAMBDA rest :
                 [text  |-> substring(result, from, m.at) \o AttrText(name, r.text)
                            \o rest.text,
                  cache |-> rest.cache,
                  edits |-> <<Edit(m.at, substring(result, m.at, m.end),
                                   AttrText(name, r.text), m.group,
                                   cacheHas(c, m.group))>> \o rest.edits])))

a_alt == <<"a","l","t">>

a_title == <<"t","i","t","l","e">>

a_placeholder == <<"p","l","a","c","e","h","o","l","d","e","r">>

a_aria_label == <<"a","r","i","a","-","l","a","b","e","l">>

\* translateHtml: the content after each pass, the replacements of each pass
\* and the cache it leaves
translateHtml(content, d, c) ==
    With(injectRootAttributes(content), LAMBDA injected :
    With(replaceTextNodes(injected, 0, d, c), LAMBDA texts :
    With(replaceAttribute(texts.text, a_alt, 0, d, texts.cache), LAMBDA alts :
    With(replaceAttribute(alts.text, a_title, 0, d, alts.cache), LAMBDA titles :
    With(replaceAttribute(titles.text, a_placeholder, 0, d, titles.cache), LAMBDA holders :
    With(replaceAttribute(holders.text, a_aria_label, 0, d, holders.cache), LAMBDA labels :
        [injected  |-> injected,
         textEdits |-> texts.edits,
         attrEdits |-> <<alts.edits, titles.edits, holders.edits, labels.edits>>,
         attrInput |-> <<texts.text, alts.text, titles.text, holders.text>>,
         text      |-> labels.text,
         cache     |-> labels.cache]))))))

(***************************************************************************)
(* Inputs of the translator runs: a small vocabulary, the dictionaries    *)
(* over it, and the caches earlier calls of the same run leave behind.     *)
(***************************************************************************)
Hi == <<"H","i">>

ok == <<"o","k">>

Go == <<"G","o">>

HiOk == <<"H","i"," ","o","k">>

TextEntries ==
    (Hi :> Ar1) @@ (ok :> Ar2) @@ (HiOk :> Ar3)

TextDicts == { Dict(Restrict(TextEntries, K)) : K \in SUBSET DOMAIN TextEntries }

MaxLeafLen == 3

JsonAlphabet == {"H", "i", " "}

JsonSamples ==
    { Hi, HiOk, Go,
      <<"O","K">>,
      <<"H","i",","," "," ","o","k","!">>,
      <<" ","H","i">>,
      <<"(","O","k",")"," ","n","o">>,
      <<"n","o","\t","n","o">> }

JsonTexts == SeqsUpTo(JsonAlphabet, MaxLeafLen) \cup JsonSamples

JsonSecond == { Hi, Go, <<"H","i",","," "," ","o","k","!">> }

k_title == <<"t","i","t","l","e">>

k_items == <<"i","t","e","m","s">>

k_n == <<"n">>

\* the parsed documents: every text in one position, every sample in another,
\* among numbers, booleans, null, nested arrays and nested objects
JsonTrees ==
    { JNum(<<"7">>), JBool(<<"t">>), JNull, JArr(<< >>), JObj(<< >>, << >>) }
    \cup { JStr(x) : x \in JsonTexts }
    \cup { JArr(<<JStr(x), JNum(<<"7">>), JStr(y)>>) : x \in JsonTexts, y \in JsonSecond }
    \cup { JObj(<<k_title, k_n, k_items>>,
                 <<JStr(x), JNull, JArr(<<JStr(y), JBool(<<"f">>)>>)>>) :
             x \in JsonTexts, y \in JsonSecond }
    \cup { JArr(<<JObj(<<k_n>>, <<JStr(y)>>),
                  JObj(<<k_title, k_items>>, <<JStr(x), JArr(<< >>)>>)>>) :
             x \in JsonTexts, y \in JsonSecond }

\* the strings an earlier file of the run may have held
WarmUps == { << >>, <<JStr(Hi)>>, <<JStr(HiOk), JStr(<<"H","i",","," "," ","o","k","!">>)>> }

InitJson ==
    /\ dict \in TextDicts
    /\ cache \in { translateObject(JArr(w), dict, EmptyMap, FALSE).cache : w \in WarmUps }
    /\ call = Idle
    /\ fsys = NoFiles
    /\ run = NoRun

\* translateJson(content, cache, dict) on the parsed content: the tree handed
\* to JSON.stringify
TranslateJson ==
    \E tree \in JsonTrees :
        LET r == translateObject(tree, dict, cache, FALSE)
        IN  /\ call = Idle
            /\ call' = [fn |-> "translateJson", input |-> tree, output |-> r.val,
                        before |-> cache]
            /\ cache' = r.cache
            /\ UNCHANGED <<dict, fsys, run>>

\* translateJson(content, cache) of the bundled-dictionary module
TranslateJsonBundled ==
    \E tree \in JsonTrees :
        LET r == translateObject(tree, dict, cache, TRUE)
        IN  /\ call = Idle
            /\ call' = [fn |-> "translateJsonBundled", input |-> tree, output |-> r.val,
                        before |-> cache]
            /\ cache' = r.cache
            /\ UNCHANGED <<dict, fsys, run>>

NextJson == TranslateJson \/ TranslateJsonBundled

SpecJson == InitJson /\ [][NextJson]_vars

(***************************************************************************)
(* C3.  The translated tree has the shape of the input tree.               *)
(***************************************************************************)
RECURSIVE SameShape(_, _)
SameShape(a, b) ==
    /\ a.t = b.t
    /\ a.keys = b.keys
    /\ Len(a.kids) = Len(b.kids)
    /\ \A i \in 1..Len(a.kids) : SameShape(a.kids[i], b.kids[i])
    /\ a.t # "str" => a.s = b.s

IsJsonCall == call.fn \in {"translateJson", "translateJsonBundled"}

Called(fn, input) == [fn |-> fn, st |-> "called", input |-> input]

TranslateHtml ==
    /\ call.fn = "translateHtml"
    /\ call.st = "called"
    /\ \E r \in { translateHtml(call.input, dict, cache) } :
          /\ call' = [fn |-> "translateHtml", st |-> "returned", input |-> call.input,
                      output |-> r.text, injected |-> r.injected,
                      textEdits |-> r.textEdits, attrEdits |-> r.attrEdits,
                      attrInput |-> r.attrInput, before |-> cache]
          /\ cache' = r.cache
    /\ UNCHANGED <<dict, fsys, run>>

NextHtml == TranslateHtml

HtmlReturned == call.fn = "translateHtml" /\ call.st = "returned"

\* all sequences of at most n distinct members of S
RECURSIVE DistinctSeqs(_, _)
DistinctSeqs(S, n) ==
    IF n = 0 THEN { << >> }
    ELSE LET shorter == DistinctSeqs(S, n - 1)
         IN  shorter \cup { Append(q, c) : q \in { t \in shorter : Len(t) = n - 1 },
                                           c \in S }

NoRepeat(q) == \A i, j \in 1..Len(q) : i # j => q[i] # q[j]

RECURSIVE JoinWith(_, _)
JoinWith(parts, sep) ==
    IF Len(parts) = 0 THEN << >>
    ELSE IF Len(parts) = 1 THEN parts[1]
         ELSE parts[1] \o sep \o JoinWith(Tail(parts), sep)

(***************************************************************************)
(* Documents that open with an <html ...> tag.                             *)
(***************************************************************************)
MaxRootAttrs == 2

RootAttrChunks ==
    { <<"d","i","r","=","\"","l","t","r","\"">>,
      <<"d","i","r","=","l","t","r">>,
      <<"l","a","n","g","=","'","e","n","'">>,
      <<"L","A","N","G"," ","="," ","\"","e","n","\"">>,
      <<"c","l","a","s","s","=","\"","x","\"">>,
      <<"d","a","t","a","-","d","i","r","=","\"","x","\"">>,
      <<"i","d","=","a">> }

RootOpenings == { <<"<","h","t","m","l">>, <<"<","H","T","M","L">> }

RootBodies == { <<"<","p",">","H","i","<","/","p",">">>, << >> }

HtmlRootDocs ==
    { open \o (IF Len(attrs) = 0 THEN << >> ELSE gap \o JoinWith(attrs, <<" ">>))
           \o <<">">> \o body :
        open \in RootOpenings,
        gap \in { <<" ">>, <<"\n"," ">> },
        attrs \in { q \in DistinctSeqs(RootAttrChunks, MaxRootAttrs) : NoRepeat(q) },
        body \in RootBodies }

InitHtmlRoot ==
    /\ dict \in { Dict(EmptyMap), Dict(TextEntries) }
    /\ cache = EmptyMap
    /\ call \in { Called("translateHtml", doc) : doc \in HtmlRootDocs }
    /\ fsys = NoFiles
    /\ run = NoRun

SpecHtmlRoot == InitHtmlRoot /\ [][NextHtml]_vars

(***************************************************************************)
(* C4.  The attributes of a tag, as a browser reads them.                  *)
(***************************************************************************)
Attr(name, value) == [name |-> name, value |-> value]

\* the attributes written in s from 1-based position i on: names separated by
\* whitespace, each with an optional = value that is quoted or runs to the
\* next whitespace
RECURSIVE ParseAttrsFrom(_, _)
ParseAttrsFrom(s, i) ==
    IF i > Len(s) THEN << >>
    ELSE IF s[i] \in WsCh THEN ParseAttrsFrom(s, i + 1)
    ELSE LET nameEnd == Min({ j \in i..(Len(s) + 1) :
                                j = Len(s) + 1 \/ s[j] \in WsCh \cup {"="} })
             name    == SubSeq(s, i, nameEnd - 1)
             eq      == Min({ j \in nameEnd..(Len(s) + 1) :
                                j = Len(s) + 1 \/ s[j] \notin WsCh })
         IN  IF eq > Len(s) \/ s[eq] # "="
             THEN <<Attr(name, << >>)>> \o ParseAttrsFrom(s, nameEnd)
             ELSE LET v == Min({ j \in (eq + 1)..(Len(s) + 1) :
                                   j = Len(s) + 1 \/ s[j] \notin WsCh })
                  IN  IF v > Len(s) THEN <<Attr(name, << >>)>>
                      ELSE IF s[v] \in QuoteCh
                      THEN LET close == Min({ j \in (v + 1)..(Len(s) + 1) :
                                                j = Len(s) + 1 \/ s[j] = s[v] })
                           IN  <<Attr(name, SubSeq(s, v + 1, close - 1))>>
                               \o ParseAttrsFrom(s, close + 1)
                      ELSE LET stop == Min({ j \in v..(Len(s) + 1) :
                                               j = Len(s) + 1 \/ s[j] \in WsCh })
                           IN  <<Attr(name, SubSeq(s, v, stop - 1))>>
                               \o ParseAttrsFrom(s, stop)

ParseAttrs(s) == ParseAttrsFrom(s, 1)

\* the attribute a browser takes for name: the first one so named, names
\* compared without case
HasAttrValue(attrs, name, value) ==
    /\ \E i \in 1..Len(attrs) : toLowerCase(attrs[i].name) = name
    /\ LET first == Min({ i \in 1..Len(attrs) : toLowerCase(attrs[i].name) = name })
       IN  attrs[first].value = value

OtherAttrs(attrs) ==
    SelectSeq(attrs, LAMBDA a : toLowerCase(a.name) \notin {a_dir, a_lang})

\* C4: when the input holds an <html ...> opening tag, the first such tag of
\* the output has dir = rtl and lang = ar as its dir and lang attributes,
\* whatever dir and lang attributes the input tag had, quoted or not, and
\* every other attribute of the tag is kept with its value, in the same order.
C4_RootTagCarriesRtlAr ==
    (HtmlReturned /\ HtmlTagMatch(call.input).found) =>
        /\ HtmlTagMatch(call.output).found
        /\ LET old == ParseAttrs(HtmlTagMatch(call.input).group)
               new == ParseAttrs(HtmlTagMatch(call.output).group)
           IN  /\ HasAttrValue(new, a_dir, v_rtl)
               /\ HasAttrValue(new, a_lang, v_ar)
               /\ OtherAttrs(new) = OtherAttrs(old)

(***************************************************************************)
(* Documents made of elements <tag>text</tag>, some of them script or      *)
(* style elements, translated after an earlier file of the run has filled  *)
(* the shared cache.                                                       *)
(***************************************************************************)
MaxElems == 2

HiCall == <<"H","i"," ","(",")">>

ElemTags == { <<"p">>, <<"s","c","r","i","p","t">>, <<"s","t","y","l","e">> }

ElemTexts ==
    { Hi, HiOk, HiCall,
      <<"n","o">>,
      <<"n","o"," "," ","n","o">>,
      <<"\n"," ","n","o","\t","n","o","\n">>,
      <<" ","H","i","\n">> }

Element(tag, text) == <<"<">> \o tag \o <<">">> \o text \o <<"<","/">> \o tag \o <<">">>

Elements == { Element(tag, text) : tag \in ElemTags, text \in ElemTexts }

HtmlTextDocs == { Concat(q) : q \in SeqsUpTo(Elements, MaxElems) \ { << >> } }

\* the strings of a JSON file translated earlier in the run
HtmlWarmUps == { << >>, <<JStr(HiCall)>> }

InitHtmlText ==
    /\ dict \in { Dict(EmptyMap), Dict(Restrict(TextEntries, {Hi})), Dict(TextEntries) }
    /\ cache \in { translateObject(JArr(w), dict, EmptyMap, FALSE).cache : w \in HtmlWarmUps }
    /\ call \in { Called("translateHtml", doc) : doc \in HtmlTextDocs }
    /\ fsys = NoFiles
    /\ run = NoRun

SpecHtmlText == InitHtmlText /\ [][NextHtml]_vars

(***************************************************************************)
(* C5.  Script and style elements and the text-node pass.                  *)
(***************************************************************************)
\* offset at of s lies after an opening <name that no </name> has closed
WithinElement(s, name, at) ==
    \E p \in 0..(at - 1) :
        /\ MatchesAt(s, <<"<">> \o name, p)
        /\ \A q \in (p + 1)..(at - 1) : ~MatchesAt(s, <<"<","/">> \o name \o <<">">>, q)

InScriptOrStyle(s, at) ==
    \/ WithinElement(s, <<"s","c","r","i","p","t">>, at)
    \/ WithinElement(s, <<"s","t","y","l","e">>, at)

\* C5: a ">text<" span inside a script or style element is left as it is by
\* the text-node pass, also when the same span occurs outside such an element
\* and the text has an exact dictionary entry; and a span outside script and
\* style whose text has an exact dictionary entry (and no cached translation)
\* is translated, also when the same span occurs inside such an element.
C5_ScriptStyleUntouched ==
    HtmlReturned =>
        \A i \in 1..Len(call.textEdits) :
            LET e == call.textEdits[i]
            IN  /\ InScriptOrStyle(call.injected, e.at) => e.new = e.old
                /\ (/\ ~InScriptOrStyle(call.injected, e.at)
                    /\ ~e.cached
                    /\ Truthy(dict, e.candidate)
                    /\ dict.entries[e.candidate] # e.candidate) => e.new # e.old

(***************************************************************************)
(* C7.  Spans that are unsafe or resolve to nothing.                       *)
(***************************************************************************)
\* no lookup of word hits: exact, lowercase, punctuation-stripped
NoWordHit(word, d) ==
    /\ ~Truthy(d, word)
    /\ ~Truthy(d, toLowerCase(word))
    /\ ~Truthy(d, stripPunct(word))
    /\ ~Truthy(d, toLowerCase(stripPunct(word)))

\* no cache or dictionary lookup of text hits: whole string, lowercase, or any
\* whitespace-delimited token
NoLookupHits(text, d, cached) ==
    /\ ~cached
    /\ ~Truthy(d, text)
    /\ ~Truthy(d, toLowerCase(text))
    /\ \A k \in 1..Len(splitWs(text)) : NoWordHit(splitWs(text)[k], d)

\* C7: a text-node span outside script and style whose trimmed text is
\* classified unsafe, or for which no cache or dictionary lookup hits, is
\* emitted exactly as it is in the input, internal whitespace included.
C7_UntranslatedSpansIdentical ==
    HtmlReturned =>
        \A i \in 1..Len(call.textEdits) :
            LET e == call.textEdits[i]
            IN  (/\ ~InScriptOrStyle(call.injected, e.at)
                 /\ \/ ~isSafeToTranslate(e.candidate, dict)
                    \/ NoLookupHits(e.candidate, dict, e.cached)) => e.new = e.old

(***************************************************************************)
(* Documents with one tag carrying attributes, with or without a script    *)
(* element whose body holds an attribute-like assignment.                  *)
(***************************************************************************)
MaxAttrs == 2

AttrChunks ==
    { <<"a","l","t","=","\"","H","i","\"">>,
      <<"t","i","t","l","e","=","'","H","i","'">>,
      <<"p","l","a","c","e","h","o","l","d","e","r"," ","="," ","\"","H","i"," ","o","k","\"">>,
      <<"a","r","i","a","-","l","a","b","e","l","=","\"","o","k","\"">>,
      <<"d","a","t","a","-","t","i","t","l","e","=","\"","H","i","\"">>,
      <<"c","l","a","s","s","=","\"","H","i","\"">>,
      <<"i","d","=","\"","n","o","\"">> }

ScriptBodies ==
    { << >>,
      Element(<<"s","c","r","i","p","t">>,
              <<"v","a","r"," ","t","i","t","l","e","=","'","H","i","'",";">>) }

HtmlAttrDocs ==
    { <<"<","i","m","g">>
      \o (IF Len(attrs) = 0 THEN << >> ELSE <<" ">> \o JoinWith(attrs, <<" ">>))
      \o <<">">> \o body :
        attrs \in { q \in DistinctSeqs(AttrChunks, MaxAttrs) : NoRepeat(q) },
        body \in ScriptBodies }

InitHtmlAttr ==
    /\ dict \in { Dict(EmptyMap), Dict(Restrict(TextEntries, {Hi})), Dict(TextEntries) }
    /\ cache = EmptyMap
    /\ call \in { Called("translateHtml", doc) : doc \in HtmlAttrDocs }
    /\ fsys = NoFiles
    /\ run = NoRun

SpecHtmlAttr == InitHtmlAttr /\ [][NextHtml]_vars

(***************************************************************************)
(* C6.  What the attribute passes may touch.                               *)
(***************************************************************************)
PassNames == <<a_alt, a_title, a_placeholder, a_aria_label>>

\* offset at of s lies inside a tag: the last '<' before it is not closed
InsideTag(s, at) ==
    \E p \in 0..(at - 1) :
        /\ s[p + 1] = "<"
        /\ \A q \in (p + 1)..(at - 1) : s[q + 1] # ">"

\* an attribute name starts at offset at of s: inside a tag, after whitespace
AttrNameStartsAt(s, at) ==
    /\ at > 0
    /\ s[at] \in WsCh
    /\ InsideTag(s, at)

\* C6: an attribute pass changes a value only where an attribute named
\* exactly alt, title, placeholder or aria-label stands on a tag; the values
\* of attributes with other names (data-title among them) and the bodies of
\* script and style elements come out as they went in.
C6_OnlyListedAttributes ==
    HtmlReturned =>
        \A n \in 1..4 : \A i \in 1..Len(call.attrEdits[n]) :
            LET e == call.attrEdits[n][i]
            IN  e.new # AttrText(PassNames[n], e.candidate)
                    => AttrNameStartsAt(call.attrInput[n], e.at)

(***************************************************************************)
(* acorn.parse on the fragment of JavaScript the source buffers are drawn  *)
(* from: statements of identifiers, numbers, operators, brackets, line     *)
(* comments, template literals without substitutions and string literals.  *)
(* Markup in operand position is a syntax error, as is a string literal    *)
(* that is not closed on its line.                                         *)
(***************************************************************************)
ParseError == [ok |-> FALSE, lits |-> << >>]

\* stands for the backtick character, which a string of this notation cannot hold
BackTick == "@"

\* the character an escape sequence \ch stands for
Unescape(ch) ==
    IF ch = "n" THEN <<"\n">>
    ELSE IF ch = "t" THEN <<"\t">>
    ELSE IF ch = "\n" THEN << >>
    ELSE <<ch>>

\* the rest of a string literal opened by quote q, read from offset i of s
\* with value v so far: whether it closes, the offset after it and its value
RECURSIVE ScanString(_, _, _, _)
ScanString(s, q, i, v) ==
    IF i >= Len(s) THEN [ok |-> FALSE, end |-> i, value |-> v]
    ELSE IF s[i + 1] = q THEN [ok |-> TRUE, end |-> i + 1, value |-> v]
    ELSE IF s[i + 1] = "\n" /\ q # BackTick THEN [ok |-> FALSE, end |-> i, value |-> v]
    ELSE IF s[i + 1] = "\\"
         THEN IF i + 1 >= Len(s) THEN [ok |-> FALSE, end |-> i, value |-> v]
              ELSE ScanString(s, q, i + 2, v \o Unescape(s[i + 2]))
    ELSE ScanString(s, q, i + 1, Append(v, s[i + 1]))

\* the offset after the line comment that starts at offset i
CommentEnd(s, i) ==
    Min({ j \in i..Len(s) : j = Len(s) \/ s[j + 1] = "\n" })

\* an operand may follow the significant character prev (empty at the start)
OperandExpected(prev) == prev \notin IdentCh \cup {")", "]", "\"", "'", BackTick}

\* the Literal nodes with a string value, in source order: node.range and
\* node.value; ok is FALSE when acorn throws
RECURSIVE Scan(_, _, _)
Scan(s, i, prev) ==
    IF i >= Len(s) THEN [ok |-> TRUE, lits |-> << >>]
    ELSE IF s[i + 1] \in QuoteCh
    THEN With(ScanString(s, s[i + 1], i + 1, << >>), LAMBDA lit :
             IF ~lit.ok THEN ParseError
             ELSE With(Scan(s, lit.end, s[i + 1]), LAMBDA rest :
                      [ok   |-> rest.ok,
                       lits |-> IF rest.ok
                                THEN <<[start |-> i, end |-> lit.end,
                                        value |-> lit.value]>> \o rest.lits
                                ELSE << >>]))
    ELSE IF s[i + 1] = BackTick
    THEN With(ScanString(s, BackTick, i + 1, << >>), LAMBDA lit :
             IF ~lit.ok THEN ParseError ELSE Scan(s, lit.end, BackTick))
    ELSE IF MatchesAt(s, <<"/","/">>, i) THEN Scan(s, CommentEnd(s, i), prev)
    ELSE IF s[i + 1] = "<" /\ OperandExpected(prev) THEN ParseError
    ELSE IF s[i + 1] \in WsCh THEN Scan(s, i + 1, prev)
    ELSE Scan(s, i + 1, s[i + 1])

\* acorn.parse(content, ...) followed by the collection of the Literal nodes
parse(content) == Scan(content, 0, "")

(***************************************************************************)
(* CodeLiteralRewriter: translateStrings(content, cache, dict).            *)
(***************************************************************************)
\* the translation of a safe literal value: cache, exact match, then the
\* words with exact and punctuation-stripped lookups
literalTranslation(value, d, c) ==
    IF cacheHas(c, value) THEN Resolved(c[value], c)
    ELSE IF Truthy(d, value)
         THEN Resolved(d.entries[value], cacheSet(c, value, d.entries[value]))
    ELSE With(translateWordsExact(value, d), LAMBDA translation :
             Resolved(translation,
                      IF translation # value THEN cacheSet(c, value, translation) ELSE c))

Replacement(start, end, replacement) ==
    [start |-> start, end |-> end, replacement |-> replacement]

\* the Literal visitor on one node: the replacement it pushes, if any, and
\* the cache it leaves
visitLiteral(node, d, c) ==
    IF node.value = << >> \/ trim(node.value) = << >>
    THEN [reps |-> << >>, cache |-> c]
    ELSE IF ~isSafeToTranslate(node.value, d) THEN [reps |-> << >>, cache |-> c]
    ELSE With(literalTranslation(node.value, d, c), LAMBDA r :
             [reps  |-> IF r.text # node.value
                        THEN <<Replacement(node.start, node.end, r.text)>>
                        ELSE << >>,
              cache |-> r.cache])

\* walk.simple(ast, {Literal}) over the string literals
RECURSIVE walkLiterals(_, _, _)
walkLiterals(nodes, d, c) ==
    IF nodes = << >> THEN [reps |-> << >>, cache |-> c]
    ELSE With(visitLiteral(Head(nodes), d, c), LAMBDA v :
         With(walkLiterals(Tail(nodes), d, v.cache), LAMBDA rest :
             [reps |-> v.reps \o rest.reps, cache |-> rest.cache]))

\* replacements.sort((a, b) => b.start - a.start)
RECURSIVE sortByStartDescending(_)
sortByStartDescending(reps) ==
    IF reps = << >> THEN << >>
    ELSE LET k == CHOOSE i \in 1..Len(reps) :
                      \A j \in 1..Len(reps) : reps[j].start <= reps[i].start
         IN  <<reps[k]>>
             \o sortByStartDescending(SubSeq(reps, 1, k - 1) \o SubSeq(reps, k + 1, Len(reps)))

quoteType(original) ==
    IF startsWith(original, <<"\"">>) THEN <<"\"">>
    ELSE IF startsWith(original, <<"'">>) THEN <<"'">>
    ELSE IF startsWith(original, <<BackTick>>) THEN <<BackTick>>
    ELSE << >>

\* s.replace(/pat/g, rep) for a pattern that is a fixed text
RECURSIVE replaceAllSeq(_, _, _)
replaceAllSeq(s, pat, rep) ==
    IF s = << >> THEN << >>
    ELSE IF MatchesAt(s, pat, 0)
         THEN rep \o replaceAllSeq(substringFrom(s, Len(pat)), pat, rep)
         ELSE <<Head(s)>> \o replaceAllSeq(Tail(s), pat, rep)

\* the escaping of the translation for the quote of the literal
escapeTranslation(quote, translation) ==
    IF quote = <<"\"">> THEN replaceAllChar(translation, "\"", <<"\\", "\"">>)
    ELSE IF quote = <<"'">> THEN replaceAllChar(translation, "'", <<"\\", "'">>)
    ELSE IF quote = <<BackTick>>
         THEN replaceAllSeq(replaceAllChar(translation, BackTick, <<"\\", BackTick>>),
                            <<"$", "{">>, <<"\\", "$", "{">>)
    ELSE translation

\* quoteType + escapedTranslation + quoteType for one replacement
rewrittenLiteral(content, rep) ==
    LET quote == quoteType(substring(content, rep.start, rep.end))
    IN  quote \o escapeTranslation(quote, rep.replacement) \o quote

\* the loop over the sorted replacements
RECURSIVE applyReplacements(_, _, _)
applyReplacements(content, result, reps) ==
    IF reps = << >> THEN result
    ELSE applyReplacements(content,
                           substring(result, 0, Head(reps).start)
                           \o rewrittenLiteral(content, Head(reps))
                           \o substringFrom(result, Head(reps).end),
                           Tail(reps))

\* the translation of a safe trimmed text of the markup pass: cache, exact,
\* lowercase, then the words with the four lookups
jsxTranslation(trimmed, d, c) ==
    IF cacheHas(c, trimmed) THEN Resolved(c[trimmed], c)
    ELSE IF Truthy(d, trimmed)
         THEN Resolved(d.entries[trimmed], cacheSet(c, trimmed, d.entries[trimmed]))
    ELSE IF Truthy(d, toLowerCase(trimmed))
         THEN Resolved(d.entries[toLowerCase(trimmed)],
                       cacheSet(c, trimmed, d.entries[toLowerCase(trimmed)]))
    ELSE With(translateWords(trimmed, d), LAMBDA translation :
             Resolved(translation,
                      IF translation # trimmed THEN cacheSet(c, trimmed, translation) ELSE c))

\* the callback of result.replace(/>([^<{]+)</g, ...) for the match m
jsxTextReplacement(result, m, d, c) ==
    LET textContent == m.group
        old         == substring(result, m.at, m.end)
        trimmed     == trim(textContent)
    IN  IF insideScriptOrStyle(substring(result, 0, m.at)) THEN Resolved(old, c)
        ELSE IF trimmed = << >> \/ ~isSafeToTranslate(trimmed, d) THEN Resolved(old, c)
        ELSE With(jsxTranslation(trimmed, d, c), LAMBDA r :
                 Resolved(<<">">> \o substring(textContent, 0, LeadingWs(textContent))
                          \o r.text
                          \o substringFrom(textContent,
                                           Len(textContent) - TrailingWs(textContent))
                          \o <<"<">>,
                          r.cache))

\* result.replace(/>([^<{]+)</g, ...) from offset from on
RECURSIVE replaceJsxText(_, _, _, _)
replaceJsxText(result, from, d, c) ==
    With(TextNodeMatch(result, {"<", "{"}, from), LAMBDA m :
        IF ~m.found
        THEN [text |-> substringFrom(result, from), cache |-> c, edits |-> << >>]
        ELSE With(jsxTextReplacement(result, m, d, c), LAMBDA r :
             With(replaceJsxText(result, m.end, d, r.cache), LAMBDA rest :
                 [text  |-> substring(result, from, m.at) \o r.text \o rest.text,
                  cache |-> rest.cache,
                  edits |-> <<Edit(m.at, substring(result, m.at, m.end), r.text,
                                   trim(m.group), cacheHas(c, trim(m.group)))>>
                            \o rest.edits])))

\* what translateStrings does with a buffer whose literals are nodes: the
\* replacements pushed, the buffer after applying them, the replacements of
\* the markup pass, the text returned and the cache left
rewriteStrings(content, nodes, parsed, d, c) ==
    With(walkLiterals(nodes, d, c), LAMBDA walked :
    With(applyReplacements(content, content, sortByStartDescending(walked.reps)),
         LAMBDA result :
    With(replaceJsxText(result, 0, d, walked.cache), LAMBDA jsx :
        [parsed        |-> parsed,
         replacements  |-> walked.reps,
         afterLiterals |-> result,
         jsxEdits      |-> jsx.edits,
         text          |-> jsx.text,
         cache         |-> jsx.cache])))

\* translateStrings without the return in the catch block
translateStrings_NoEarlyReturn(content, d, c) ==
    With(parse(content), LAMBDA ast : rewriteStrings(content, ast.lits, ast.ok, d, c))

translateStrings(content, d, c) ==
    With(parse(content), LAMBDA ast :
        IF ~ast.ok
        THEN [parsed |-> FALSE, replacements |-> << >>, afterLiterals |-> content,
              jsxEdits |-> << >>, text |-> content, cache |-> c]
        ELSE rewriteStrings(content, ast.lits, TRUE, d, c))

TranslateStrings ==
    /\ call.fn = "translateStrings"
    /\ call.st = "called"
    /\ \E r \in { translateStrings(call.input, dict, cache) } :
          /\ call' = [fn |-> "translateStrings", st |-> "returned", input |-> call.input,
                      output |-> r.text, parsed |-> r.parsed,
                      replacements |-> r.replacements,
                      afterLiterals |-> r.afterLiterals, jsxEdits |-> r.jsxEdits,
                      before |-> cache]
          /\ cache' = r.cache
    /\ UNCHANGED <<dict, fsys, run>>

NextStrings == TranslateStrings

StringsReturned == call.fn = "translateStrings" /\ call.st = "returned"

(***************************************************************************)
(* Source buffers: statements with string literals, a comparison chain, a  *)
(* comment, markup in a literal, markup in operand position and a literal  *)
(* left open.                                                              *)
(***************************************************************************)
MaxStmts == 2

say == <<"s","a","y">>

end == <<"e","n","d">>

StringEntries ==
    (Hi :> Ar1) @@ (HiOk :> Ar3) @@ (say :> <<"a","\"","b">>) @@ (end :> <<"#","\\">>)

Statements ==
    { <<"x"," ","="," ","\"","H","i","\"",";">>,
      <<"y"," ","="," ","'","H","i"," ","o","k","'",";">>,
      <<"i","f"," ","(","a"," ",">"," ","b"," "," ","&","&"," "," ","c"," ","<"," ","d",")",
        " ","z","+","+",";">>,
      <<"x"," ","="," ","<","p",">","H","i","<","/","p",">",";">>,
      <<"t"," ","="," ","\"","<","b",">","H","i","<","/","b",">","\"",";">>,
      <<"/","/"," ","H","i">>,
      <<"s"," ","="," ","\"","s","a","y","\"",";">>,
      <<"e"," ","="," ","'","e","n","d","'",";">>,
      <<"u"," ","="," ","\"","n","o">>,
      <<"w"," ","="," ",BackTick,"H","i",BackTick,";">> }

SourceBuffers ==
    { JoinWith(q, <<"\n">>) : q \in { t \in DistinctSeqs(Statements, MaxStmts) : NoRepeat(t) } }

InitStrings ==
    /\ dict \in { Dict(EmptyMap), Dict(Restrict(StringEntries, {Hi, HiOk})),
                  Dict(StringEntries) }
    /\ cache = EmptyMap
    /\ call \in { Called("translateStrings", buffer) : buffer \in SourceBuffers }
    /\ fsys = NoFiles
    /\ run = NoRun

SpecStrings == InitStrings /\ [][NextStrings]_vars

(***************************************************************************)
(* C2.  What translateStrings may change in a buffer.                      *)
(***************************************************************************)
TagNameStart == LowerCh \cup UpperCh \cup {"/"}

\* the '>' at offset at of s closes a markup tag
ClosesTag(s, at) ==
    \E p \in 0..(at - 2) :
        /\ s[p + 1] = "<"
        /\ s[p + 2] \in TagNameStart
        /\ \A q \in (p + 1)..(at - 1) : s[q + 1] \notin {"<", ">"}

\* the '<' at offset at of s opens a markup tag
OpensTag(s, at) == at + 2 <= Len(s) /\ s[at + 2] \in TagNameStart

\* the buffer s with the literals of reps (in source order) rewritten and
\* everything between them kept, from offset pos on
RECURSIVE SpliceAscending(_, _, _)
SpliceAscending(s, reps, pos) ==
    IF reps = << >> THEN substringFrom(s, pos)
    ELSE substring(s, pos, Head(reps).start) \o rewrittenLiteral(s, Head(reps))
         \o SpliceAscending(s, Tail(reps), Head(reps).end)

\* C2: translateStrings changes only the ranges of string literals whose
\* translation differs from their value and text between markup tags; every
\* other character of the buffer (operators, identifiers, comments, the
\* whitespace of ordinary code) is the same in the output, and a buffer in
\* which nothing resolves to a different translation is returned unchanged.
C2_OnlyLiteralsAndMarkupText ==
    (StringsReturned /\ parse(call.input).ok) =>
        /\ \A i \in 1..Len(call.replacements) :
               \E k \in 1..Len(parse(call.input).lits) :
                   /\ parse(call.input).lits[k].start = call.replacements[i].start
                   /\ parse(call.input).lits[k].end = call.replacements[i].end
                   /\ parse(call.input).lits[k].value # call.replacements[i].replacement
        /\ call.afterLiterals = SpliceAscending(call.input, call.replacements, 0)
        /\ \A i \in 1..Len(call.jsxEdits) :
               LET e == call.jsxEdits[i]
               IN  e.new # e.old =>
                       /\ ClosesTag(call.afterLiterals, e.at)
                       /\ OpensTag(call.afterLiterals, e.at + Len(e.old) - 1)
        /\ (call.replacements = << >>
            /\ \A i \in 1..Len(call.jsxEdits) : call.jsxEdits[i].new = call.jsxEdits[i].old)
               => call.output = call.input

(***************************************************************************)
(* C8.  The literal written in place of a translated one.                  *)
(***************************************************************************)
\* text is one complete string literal
IsStringLiteral(text) ==
    /\ Len(text) >= 2
    /\ text[1] \in QuoteCh \cup {BackTick}
    /\ ScanString(text, text[1], 1, << >>).ok
    /\ ScanString(text, text[1], 1, << >>).end = Len(text)

\* C8: every literal translateStrings rewrites keeps the quote character of
\* the original literal at both ends, and the text written is a complete,
\* syntactically valid string literal, whatever translation the dictionary or
\* the cache supplied.
C8_RewrittenLiteralValid ==
    StringsReturned =>
        \A i \in 1..Len(call.replacements) :
            LET rep       == call.replacements[i]
                rewritten == rewrittenLiteral(call.input, rep)
            IN  /\ rewritten # << >>
                /\ rewritten[1] = call.input[rep.start + 1]
                /\ rewritten[Len(rewritten)] = call.input[rep.start + 1]
                /\ IsStringLiteral(rewritten)

SUPPORTED_EXTENSIONS ==
    { <<".","j","s","o","n">>,
      <<".","j","s">>,
      <<".","t","s">>,
      <<".","j","s","x">>,
      <<".","t","s","x">>,
      <<".","h","t","m","l">>,
      <<".","h","t","m">>,
      <<".","c","s","s">>,
      <<".","s","c","s","s">>,
      <<".","l","e","s","s">> }

\* path.basename(p)
basename(p) == substringFrom(p, lastIndexOf(p, <<"/">>) + 1)

\* path.dirname(p)
dirname(p) == substring(p, 0, lastIndexOf(p, <<"/">>))

\* path.extname(p): from the last '.' of the basename on, empty when there is
\* none or when it is the first character
extname(p) ==
    IF lastIndexOf(basename(p), <<".">>) <= 0 THEN << >>
    ELSE substringFrom(basename(p), lastIndexOf(basename(p), <<".">>))

endsWith(s, t) == Len(t) <= Len(s) /\ MatchesAt(s, t, Len(s) - Len(t))

\* path.basename(p, ext)
basenameWithout(p, ext) ==
    IF ext # << >> /\ Len(basename(p)) > Len(ext) /\ endsWith(basename(p), ext)
    THEN substring(basename(p), 0, Len(basename(p)) - Len(ext))
    ELSE basename(p)

\* path.join(dir, name)
join(dir, name) == dir \o <<"/">> \o name

ProjectRoot == <<"/","p">>

ToolRoot == <<"/","p","/","t","o","o","l">>

isWithinProjectRoot(filePath, projectRoot) ==
    IF filePath = projectRoot THEN TRUE
    ELSE IF ~startsWith(filePath, projectRoot \o <<"/">>) THEN FALSE
    ELSE ~startsWith(substringFrom(filePath, Len(projectRoot) + 1), <<".", ".">>)

isSupportedFile(filePath) == toLowerCase(extname(filePath)) \in SUPPORTED_EXTENSIONS

buildDirs == { <<"d","i","s","t">>, <<"b","u","i","l","d">>, <<".","n","e","x","t">>, <<"o","u","t">> }

\* /-ar\./.test(basename)
HasArMarker(name) == includes(name, <<"-","a","r",".">>)

\* shouldExcludeFile without the test for names of translated files
shouldExcludeFile_NoArTest(filePath, projectRoot) ==
    \/ ~isWithinProjectRoot(filePath, projectRoot)
    \/ startsWith(filePath, ToolRoot)
    \/ includes(filePath, <<"n","o","d","e","_","m","o","d","u","l","e","s">>)
    \/ includes(filePath, <<".","g","i","t">>)
    \/ \E dir \in buildDirs :
          \/ includes(filePath, <<"/">> \o dir \o <<"/">>)
          \/ endsWith(filePath, <<"/">> \o dir)

shouldExcludeFile(filePath, projectRoot) ==
    \/ ~isWithinProjectRoot(filePath, projectRoot)
    \/ startsWith(filePath, ToolRoot)
    \/ includes(filePath, <<"n","o","d","e","_","m","o","d","u","l","e","s">>)
    \/ includes(filePath, <<".","g","i","t">>)
    \/ \E dir \in buildDirs :
          \/ includes(filePath, <<"/">> \o dir \o <<"/">>)
          \/ endsWith(filePath, <<"/">> \o dir)
    \/ HasArMarker(basename(filePath))

\* `${name}-ar${ext}` in the directory of the input
getOutputPath(inputPath) ==
    join(dirname(inputPath),
         basenameWithout(inputPath, extname(inputPath)) \o <<"-","a","r">>
         \o extname(inputPath))

detectFileType(filePath) ==
    LET ext == toLowerCase(extname(filePath))
    IN  IF ext = <<".","j","s","o","n">> THEN "json"
        ELSE IF ext \in { <<".","h","t","m","l">>, <<".","h","t","m">> } THEN "html"
        ELSE IF ext \in { <<".","j","s">>, <<".","t","s">>, <<".","j","s","x">>, <<".","t","s","x">> } THEN "js"
        ELSE IF ext \in { <<".","c","s","s">>, <<".","s","c","s","s">>, <<".","l","e","s","s">> } THEN "css"
        ELSE "unknown"

(***************************************************************************)
(* The file system and one run of the translator over a list of files.    *)
(* The content of a file is known by its origin: a source file (whose      *)
(* translator accepts it or throws on it) or the translation of a file.    *)
(***************************************************************************)
SourceFile(accepted) == [kind |-> "src", accepted |-> accepted, of |-> << >>]

Translation(inputPath) == [kind |-> "ar", accepted |-> TRUE, of |-> inputPath]

\* readFileSafe(filePath, projectRoot) returns the content (it throws otherwise)
canRead(files, filePath, projectRoot) ==
    /\ isSupportedFile(filePath)
    /\ ~shouldExcludeFile(filePath, projectRoot)
    /\ filePath \in DOMAIN files

\* translateJson throws on content JSON.parse rejects and rtlcss on content
\* it cannot process; translateHtml and translateStrings always return
translatorReturns(fileType, content) == fileType \in {"html", "js"} \/ content.accepted

\* writeFileSafe(filePath, content)
writeFileSafe(files, filePath, content) ==
    [x \in DOMAIN files \cup {filePath} |-> IF x = filePath THEN content ELSE files[x]]

\* translateFileWithDict(filePath, projectRoot, dict) does not throw
fileSucceeds(files, filePath, projectRoot) ==
    /\ isWithinProjectRoot(filePath, projectRoot)
    /\ detectFileType(filePath) # "unknown"
    /\ canRead(files, filePath, projectRoot)
    /\ translatorReturns(detectFileType(filePath), files[filePath])
    /\ detectFileType(filePath) = "css"
         \/ isWithinProjectRoot(getOutputPath(filePath), projectRoot)

\* afterFile with the catch block of the loop leaving failCount alone
afterFile_FailureUncounted(r, files, filePath) ==
    [r EXCEPT !.reads  = IF canRead(files, filePath, ProjectRoot)
                            /\ isWithinProjectRoot(filePath, ProjectRoot)
                            /\ detectFileType(filePath) # "unknown"
                         THEN @ \cup {filePath} ELSE @,
              !.writes = IF fileSucceeds(files, filePath, ProjectRoot)
                         THEN @ \cup {getOutputPath(filePath)} ELSE @,
              !.successCount = IF fileSucceeds(files, filePath, ProjectRoot)
                               THEN @ + 1 ELSE @]

\* the run after translateFileWithDict on filePath: the file system, the
\* paths read and written so far
afterFile(r, files, filePath) ==
    [r EXCEPT !.reads  = IF canRead(files, filePath, ProjectRoot)
                            /\ isWithinProjectRoot(filePath, ProjectRoot)
                            /\ detectFileType(filePath) # "unknown"
                         THEN @ \cup {filePath} ELSE @,
              !.writes = IF fileSucceeds(files, filePath, ProjectRoot)
                         THEN @ \cup {getOutputPath(filePath)} ELSE @,
              !.successCount = IF fileSucceeds(files, filePath, ProjectRoot)
                               THEN @ + 1 ELSE @,
              !.failCount = IF fileSucceeds(files, filePath, ProjectRoot)
                            THEN @ ELSE @ + 1]

filesAfter(files, filePath) ==
    IF fileSucceeds(files, filePath, ProjectRoot)
    THEN writeFileSafe(files, getOutputPath(filePath), Translation(filePath))
    ELSE files

\* translateFile(filePath, projectRoot) called on its own
TranslateFile ==
    /\ run.pc = "start"
    /\ run.api = "translateFile"
    /\ Len(run.files) = 1
    /\ fsys' = filesAfter(fsys, run.files[1])
    /\ run' = [afterFile(run, fsys, run.files[1]) EXCEPT
                 !.pc = IF fileSucceeds(fsys, run.files[1], ProjectRoot)
                        THEN "done" ELSE "threw"]
    /\ UNCHANGED <<dict, cache, call>>

\* translateFiles: the split of filePaths into text files and CSS files
SeparateFiles ==
    /\ run.pc = "start"
    /\ run.api = "translateFiles"
    /\ run' = [run EXCEPT
                 !.pc = "text",
                 !.textFiles = SelectSeq(run.files, LAMBDA f : detectFileType(f) # "css"),
                 !.cssFiles = SelectSeq(run.files, LAMBDA f : detectFileType(f) = "css")]
    /\ UNCHANGED <<dict, cache, call, fsys>>

\* one turn of the loop over textFiles
TranslateTextFile ==
    /\ run.pc = "text"
    /\ run.textFiles # << >>
    /\ fsys' = filesAfter(fsys, Head(run.textFiles))
    /\ run' = [afterFile(run, fsys, Head(run.textFiles)) EXCEPT
                 !.textFiles = Tail(run.textFiles)]
    /\ UNCHANGED <<dict, cache, call>>

\* one turn of the loop over cssFiles, which starts when textFiles is done
TranslateCssFile ==
    /\ run.pc = "text"
    /\ run.textFiles = << >>
    /\ run.cssFiles # << >>
    /\ fsys' = filesAfter(fsys, Head(run.cssFiles))
    /\ run' = [afterFile(run, fsys, Head(run.cssFiles)) EXCEPT
                 !.cssFiles = Tail(run.cssFiles)]
    /\ UNCHANGED <<dict, cache, call>>

TranslateFilesDone ==
    /\ run.pc = "text"
    /\ run.textFiles = << >>
    /\ run.cssFiles = << >>
    /\ run' = [run EXCEPT !.pc = "done"]
    /\ UNCHANGED <<dict, cache, call, fsys>>

NextRun ==
    \/ TranslateFile
    \/ SeparateFiles
    \/ TranslateTextFile
    \/ TranslateCssFile
    \/ TranslateFilesDone

(***************************************************************************)
(* The projects the runs are started on.                                   *)
(***************************************************************************)
MaxFiles == 2

MissingPath == <<"/","p","/","n",".","j","s","o","n">>

PathSet ==
    { <<"/","p","/","a",".","j","s","o","n">>,
      <<"/","p","/","a","-","a","r",".","j","s","o","n">>,
      <<"/","p","/","i",".","h","t","m","l">>,
      <<"/","p","/","m",".","j","s">>,
      <<"/","p","/","s",".","c","s","s">>,
      <<"/","p","/","s","-","a","r",".","c","s","s">>,
      <<"/","p","/","r",".","t","x","t">>,
      <<"/","p","/","a",".","b",".","J","S","O","N">>,
      <<"/","p","/","n",".","j","s","o","n">>,
      <<"/","p","/","s","r","c","/","a",".","j","s","o","n">>,
      <<"/","p","/","d","i","s","t","/","a",".","j","s","o","n">>,
      <<"/","p","/","n","o","d","e","_","m","o","d","u","l","e","s","/","a",".","j","s","o","n">>,
      <<"/","p","/","t","o","o","l","/","a",".","j","s","o","n">>,
      <<"/","q","/","a",".","j","s","o","n">> }

\* files whose translator throws on their content
RejectedContent == { <<"/","p","/","s","r","c","/","a",".","j","s","o","n">> }

InitialFiles == [f \in PathSet \ {MissingPath} |-> SourceFile(f \notin RejectedContent)]

StartOf(api, files) ==
    [pc |-> "start", api |-> api, files |-> files, textFiles |-> << >>,
     cssFiles |-> << >>, reads |-> {}, writes |-> {}, successCount |-> 0,
     failCount |-> 0]

InitRun ==
    /\ dict = Dict(EmptyMap)
    /\ cache = EmptyMap
    /\ call = Idle
    /\ fsys = InitialFiles
    /\ run \in { StartOf("translateFiles", q) :
                   q \in { t \in DistinctSeqs(PathSet, MaxFiles) : NoRepeat(t) } }
             \cup { StartOf("translateFile", <<f>>) : f \in PathSet }

SpecRun == InitRun /\ [][NextRun]_vars

(***************************************************************************)
(* C1.  Where a run writes.                                                *)
(***************************************************************************)
\* <name>-ar<ext> in the directory of f, for f = <dir>/<name><ext> with <ext>
\* the part of the file name from its last '.' on
SiblingAr(f) ==
    LET slash == lastIndexOf(f, <<"/">>)
        dot   == lastIndexOf(f, <<".">>)
    IN  substring(f, 0, slash + 1) \o substring(f, slash + 1, dot)
        \o <<"-","a","r">> \o substringFrom(f, dot)

\* C1: every file a run writes is the sibling <name>-ar<ext> of a file the run
\* read, in that file's directory; such a path is rejected as an input by
\* shouldExcludeFile, so it is never a path the run reads, and the files the
\* run reads (and every file that is not such an output) keep their content.
C1_OutputsAreArSiblings ==
    /\ \A w \in run.writes :
          /\ \E f \in run.reads : w = SiblingAr(f) /\ dirname(w) = dirname(f)
          /\ shouldExcludeFile(w, ProjectRoot)
          /\ w \in DOMAIN fsys /\ fsys[w].kind = "ar" /\ w = SiblingAr(fsys[w].of)
    /\ run.writes \cap run.reads = {}
    /\ \A f \in run.reads : fsys[f] = InitialFiles[f]
    /\ \A f \in DOMAIN fsys \ run.writes :
          f \in DOMAIN InitialFiles /\ fsys[f] = InitialFiles[f]

\* a run over a JSON file and a style sheet has ended: both were read, both
\* siblings were written (one over a file left by an earlier run) and the
\* sources are as they were
C1_Witness ==
    /\ run.api = "translateFiles"
    /\ run.pc = "done"
    /\ run.reads = { <<"/","p","/","a",".","j","s","o","n">>, <<"/","p","/","s",".","c","s","s">> }
    /\ run.writes = { <<"/","p","/","a","-","a","r",".","j","s","o","n">>, <<"/","p","/","s","-","a","r",".","c","s","s">> }
    /\ fsys[<<"/","p","/","a","-","a","r",".","j","s","o","n">>] = Translation(<<"/","p","/","a",".","j","s","o","n">>)
    /\ fsys[<<"/","p","/","a",".","j","s","o","n">>] = SourceFile(TRUE)
    /\ run.successCount = 2

(***************************************************************************)
(* The resolvers of the four translators called on one candidate, and the  *)
(* two word callbacks called on one token.                                 *)
(***************************************************************************)
Resolving(fn, input, output, before) ==
    [fn |-> fn, input |-> input, output |-> output, before |-> before]

\* what the Literal visitor makes of a literal with this value
literalOutcome(value, d, c) ==
    With(visitLiteral([start |-> 0, end |-> Len(value) + 2, value |-> value], d, c),
         LAMBDA v : Resolved(IF v.reps = << >> THEN value ELSE v.reps[1].replacement,
                             v.cache))

\* what the markup pass of translateStrings makes of the text of >text<
jsxOutcome(text, d, c) ==
    With(jsxTextReplacement(<<">">> \o text \o <<"<">>,
                            Match(0, Len(text) + 2, text), d, c),
         LAMBDA r : Resolved(substring(r.text, 1, Len(r.text) - 1), r.cache))

MaxTokenLen == 3

TokenAlphabet == {"H", "i", "h", ",", " "}

hi == <<"h","i">>

OK == <<"O","K">>

ResolveEntries == (hi :> Ar1) @@ (<<"H">> :> Ar2) @@ (OK :> Ar3)

ResolveDicts == { Dict(Restrict(ResolveEntries, K)) : K \in SUBSET DOMAIN ResolveEntries }

ResolveSamples ==
    { <<"H","i",","," ","H","!">>,
      <<"O",".","K",".">>,
      <<"(","h","i",")">>,
      <<"\"","O","K","\"","!">>,
      <<"H","I">>,
      <<"H","i"," ","(",")">>,
      <<"h","i"," ","=",">"," ","H">>,
      <<"h","t","t","p",":","/","/","h","i"," ","H">>,
      <<"h","i","_","1">>,
      <<"O","K"," "," ","H","i">> }

Candidates == SeqsUpTo(TokenAlphabet, MaxTokenLen) \cup ResolveSamples

\* tokens: the pieces split(/\s+/) can produce
Tokens == { t \in Candidates : \A i \in 1..Len(t) : t[i] \notin WsCh }

InitResolve ==
    /\ dict \in ResolveDicts
    /\ cache \in { EmptyMap, (Hi :> <<"c">>) }
    /\ call = Idle
    /\ fsys = NoFiles
    /\ run = NoRun

ResolveJsonLeaf ==
    /\ call = Idle
    /\ \E text \in Candidates :
         \E r \in { translateObject(JStr(text), dict, cache, FALSE) } :
            /\ call' = Resolving("translateObject", text, r.val.s, cache)
            /\ cache' = r.cache
    /\ UNCHANGED <<dict, fsys, run>>

ResolveHtmlText ==
    /\ call = Idle
    /\ \E text \in Candidates :
         \E r \in { translateText(text, dict, cache) } :
            /\ call' = Resolving("translateText", text, r.text, cache)
            /\ cache' = r.cache
    /\ UNCHANGED <<dict, fsys, run>>

ResolveLiteral ==
    /\ call = Idle
    /\ \E text \in Candidates :
         \E r \in { literalOutcome(text, dict, cache) } :
            /\ call' = Resolving("Literal", text, r.text, cache)
            /\ cache' = r.cache
    /\ UNCHANGED <<dict, fsys, run>>

ResolveJsxText ==
    /\ call = Idle
    /\ \E text \in { t \in Candidates : t # << >> /\ trim(t) = t } :
         \E r \in { jsxOutcome(text, dict, cache) } :
            /\ call' = Resolving("jsxText", text, r.text, cache)
            /\ cache' = r.cache
    /\ UNCHANGED <<dict, fsys, run>>

ResolveWord ==
    /\ call = Idle
    /\ \E word \in Tokens :
         call' = Resolving("translateWord", word, translateWord(word, dict), cache)
    /\ UNCHANGED <<dict, cache, fsys, run>>

ResolveWordExact ==
    /\ call = Idle
    /\ \E word \in Tokens :
         call' = Resolving("translateWordExact", word, translateWordExact(word, dict), cache)
    /\ UNCHANGED <<dict, cache, fsys, run>>

NextResolve ==
    \/ ResolveJsonLeaf
    \/ ResolveHtmlText
    \/ ResolveLiteral
    \/ ResolveJsxText
    \/ ResolveWord
    \/ ResolveWordExact

SpecResolve == InitResolve /\ [][NextResolve]_vars

(***************************************************************************)
(* C11.  A whole-string hit replaces the whole candidate.                  *)
(***************************************************************************)
WholeStringFns == {"translateObject", "translateText", "Literal", "jsxText"}

\* the dictionary entry for the exact text, else for its lowercase form
WholeStringEntry(d, text) ==
    IF Truthy(d, text) THEN d.entries[text] ELSE d.entries[toLowerCase(text)]

\* C11: in every translator, when the cache holds nothing for the candidate
\* and the dictionary has an entry for its exact text or its lowercase form,
\* the result is that entry's value in place of the whole candidate (the
\* per-token fallback is not applied).
C11_WholeStringHitWins ==
    (/\ call.fn \in WholeStringFns
     /\ ~cacheHas(call.before, call.input)
     /\ Truthy(dict, call.input) \/ Truthy(dict, toLowerCase(call.input)))
        => call.output = WholeStringEntry(dict, call.input)

(***************************************************************************)
(* translateFiles from its first statement: the merged dictionary, the     *)
(* pre-scan, the AI step with its temporary file and the two stores it     *)
(* persists to, and then the loops over the files.                         *)
(***************************************************************************)
AI_ENABLED == TRUE

\* { ...a, ...b }
spread(a, b) == b @@ a

\* dictionary.json as it is bundled with the tool
MainDictionary == (Hi :> Ar1)

\* loadMergedDictionary(): the bundled dictionary under cached_words.json
loadMergedDictionary(cachedWords) == Dict(spread(MainDictionary, cachedWords))

\* the strings (whole strings, tokens, stripped tokens) the pre-scan draws
\* from the content of a file, by the type of the file
StringsOf(filePath) ==
    IF ~fsys[filePath].accepted THEN {}
    ELSE IF detectFileType(filePath) = "json" THEN {Hi, Go}
    ELSE IF detectFileType(filePath) = "html" THEN {Hi, ok}
    ELSE IF detectFileType(filePath) = "js" THEN {Go, HiOk}
    ELSE {}

\* collectMissingWords(files, projectRoot, dict)
collectMissingWords(filePaths, projectRoot, d) ==
    UNION { { w \in StringsOf(filePaths[i]) : isSafeToTranslate(w, d) /\ ~Truthy(d, w) } :
            i \in { j \in 1..Len(filePaths) :
                      /\ detectFileType(filePaths[j]) # "css"
                      /\ canRead(fsys, filePaths[j], projectRoot) } }

\* what Gemini sends back for the words asked
AiResponses == {"none", "empty", "malformed", "json"}

\* translateMissingWords(): {} without a key, without a response that is ok,
\* with an empty or malformed response text; otherwise the entries of the
\* response whose value is a non-blank string
translateMissingWords(hasKey, response, returned) ==
    IF ~hasKey \/ response # "json" THEN EmptyMap
    ELSE Restrict(returned, { k \in DOMAIN returned : trim(returned[k]) # << >> })

\* the AI step has failed: the catch block, or the branch for no translations
afterFailure_Rethrown(r) == [r EXCEPT !.pc = "threw", !.ai = "failed"]

afterFailure(r) == [r EXCEPT !.pc = "cleanup", !.ai = "failed"]

\* the call of translateMissingWords started and left behind
afterAi_NotAwaited(r, translations) ==
    [r EXCEPT !.pc = "start", !.translations = translations]

\* the AI call has returned
afterAi(r, translations) ==
    IF DOMAIN translations = {} THEN afterFailure(r)
    ELSE [r EXCEPT !.pc = "append", !.translations = translations]

\* Step 1
LoadMergedDictionary ==
    /\ run.pc = "load"
    /\ dict' = loadMergedDictionary(run.cachedWords)
    /\ run' = [run EXCEPT !.pc = "scan", !.loaded = loadMergedDictionary(run.cachedWords)]
    /\ UNCHANGED <<cache, call, fsys>>

\* Step 2, and the test that opens Step 3
CollectMissingWords ==
    /\ run.pc = "scan"
    /\ \E missing \in { collectMissingWords(run.files, ProjectRoot, dict) } :
         run' = [run EXCEPT
                   !.missingWords = missing,
                   !.scanned = TRUE,
                   !.pc = IF AI_ENABLED /\ missing # {} THEN "save" ELSE "start",
                   !.ai = IF AI_ENABLED /\ missing # {} THEN "running" ELSE "skipped"]
    /\ UNCHANGED <<dict, cache, call, fsys>>

\* saveMissingWords(missingWords, tempFilePath): mkdir or writeFile may throw,
\* writeFile also after it has created the file
SaveMissingWords ==
    /\ run.pc = "save"
    /\ \E written \in BOOLEAN, created \in BOOLEAN :
         run' = IF written THEN [run EXCEPT !.pc = "ai", !.temp = TRUE]
                ELSE [afterFailure(run) EXCEPT !.temp = created]
    /\ UNCHANGED <<dict, cache, call, fsys>>

\* keys the response may hold besides the words asked
AnswerKeys == {Hi}

\* translateMissingWords()
TranslateMissingWords ==
    /\ run.pc = "ai"
    /\ \E hasKey \in BOOLEAN, response \in AiResponses,
          K \in SUBSET (run.missingWords \cup AnswerKeys),
          blank \in SUBSET run.missingWords :
         run' = afterAi(run, translateMissingWords(hasKey, response,
                               [k \in K |-> IF k \in blank THEN <<" ">> ELSE Ar2]))
    /\ UNCHANGED <<dict, cache, call, fsys>>

\* appendToCachedWords(aiTranslations): saveCachedWords may throw
AppendToCachedWords ==
    /\ run.pc = "append"
    /\ \E written \in BOOLEAN :
         run' = IF written
                THEN [run EXCEPT !.pc = "merge",
                                 !.cachedWords = spread(@, run.translations)]
                ELSE afterFailure(run)
    /\ UNCHANGED <<dict, cache, call, fsys>>

\* mergeToMainDictionary(aiTranslations): writeFile may throw
MergeToMainDictionary ==
    /\ run.pc = "merge"
    /\ \E written \in BOOLEAN :
         run' = IF written
                THEN [run EXCEPT !.pc = "reload",
                                 !.dictionaryFile = spread(@, run.translations)]
                ELSE afterFailure(run)
    /\ UNCHANGED <<dict, cache, call, fsys>>

\* mergedDict = await loadMergedDictionary()
ReloadMergedDictionary ==
    /\ run.pc = "reload"
    /\ dict' = loadMergedDictionary(run.cachedWords)
    /\ run' = [run EXCEPT !.pc = "cleanup", !.ai = "completed"]
    /\ UNCHANGED <<cache, call, fsys>>

\* deleteTempFile called at the end of the try block, not in finally
deleteTempFile_OnlyOnSuccess(r) == [r EXCEPT !.temp = IF r.ai = "failed" THEN @ ELSE FALSE]

\* deleteTempFile(tempPath): the file is gone, whether or not it was there
deleteTempFile(r) == [r EXCEPT !.temp = FALSE]

\* finally: deleteTempFile(tempFilePath)
DeleteTempFile ==
    /\ run.pc = "cleanup"
    /\ run' = [deleteTempFile(run) EXCEPT !.pc = "start"]
    /\ UNCHANGED <<dict, cache, call, fsys>>

NextPipeline ==
    \/ LoadMergedDictionary
    \/ CollectMissingWords
    \/ SaveMissingWords
    \/ TranslateMissingWords
    \/ AppendToCachedWords
    \/ MergeToMainDictionary
    \/ ReloadMergedDictionary
    \/ DeleteTempFile
    \/ SeparateFiles
    \/ TranslateTextFile
    \/ TranslateCssFile
    \/ TranslateFilesDone

MaxQueue == 2

\* one path of each kind: translated by each translator, an earlier output,
\* unsupported, missing, rejected by its translator, outside the project
QueuePaths ==
    { <<"/","p","/","a",".","j","s","o","n">>,
      <<"/","p","/","a","-","a","r",".","j","s","o","n">>,
      <<"/","p","/","i",".","h","t","m","l">>,
      <<"/","p","/","m",".","j","s">>,
      <<"/","p","/","s",".","c","s","s">>,
      <<"/","p","/","r",".","t","x","t">>,
      MissingPath,
      <<"/","p","/","s","r","c","/","a",".","j","s","o","n">>,
      <<"/","q","/","a",".","j","s","o","n">> }

PipelineStart(files, cachedWords) ==
    [pc |-> "load", api |-> "translateFiles", files |-> files, textFiles |-> << >>,
     cssFiles |-> << >>, reads |-> {}, writes |-> {}, successCount |-> 0,
     failCount |-> 0, loaded |-> Dict(EmptyMap), missingWords |-> {}, scanned |-> FALSE,
     ai |-> "pending", translations |-> EmptyMap, cachedWords |-> cachedWords,
     dictionaryFile |-> MainDictionary, temp |-> FALSE]

InitPipeline ==
    /\ dict = Dict(EmptyMap)
    /\ cache = EmptyMap
    /\ call = Idle
    /\ fsys = InitialFiles
    /\ run \in { PipelineStart(q, cw) :
                   q \in { t \in DistinctSeqs(QueuePaths, MaxQueue) : NoRepeat(t) },
                   cw \in { EmptyMap, (HiOk :> Ar3) } }

SpecPipeline == InitPipeline /\ [][NextPipeline]_vars

(***************************************************************************)
(* C12.  A failed AI step.                                                 *)
(***************************************************************************)
\* the files in the order the loops take them
LoopOrder(files) ==
    SelectSeq(files, LAMBDA f : detectFileType(f) # "css")
        \o SelectSeq(files, LAMBDA f : detectFileType(f) = "css")

Attempted == run.successCount + run.failCount

\* C12: once the AI step has failed (no key, no usable response, or a failure
\* while saving the words or persisting the translations), translateFiles has
\* not thrown, the dictionary in use is the merged dictionary as it was loaded
\* before the AI call, and the loops attempt every input file.
C12_AiFailureTolerated ==
    run.ai = "failed" =>
        /\ run.pc # "threw"
        /\ dict = run.loaded
        /\ run.pc = "text" => Attempted + Len(run.textFiles) + Len(run.cssFiles) = Len(run.files)
        /\ run.pc = "done" => Attempted = Len(run.files)

\* the translations came back and reached cached_words.json, writing
\* dictionary.json failed, and the run went on to translate both files
C12_Witness ==
    /\ run.ai = "failed"
    /\ run.pc = "done"
    /\ DOMAIN run.translations # {}
    /\ \E k \in DOMAIN run.translations : k \in DOMAIN run.cachedWords
    /\ run.dictionaryFile = MainDictionary
    /\ Len(run.files) = 2
    /\ run.successCount = 2

(***************************************************************************)
(* C13.  A file that fails.                                                *)
(***************************************************************************)
\* C13: translateFiles does not throw when translating a file throws; the
\* files not yet attempted are all still queued, in order, whatever happened
\* to the files before them, and at the end successCount + failCount is the
\* number of input files.
C13_EveryFileCounted ==
    /\ run.pc # "threw"
    /\ run.pc = "text" =>
          run.textFiles \o run.cssFiles
            = SubSeq(LoopOrder(run.files), Attempted + 1, Len(run.files))
    /\ run.pc = "done" => Attempted = Len(run.files)

\* the first file could not be read, the second was translated
C13_Witness ==
    /\ run.pc = "done"
    /\ Len(run.files) = 2
    /\ run.files[1] = MissingPath
    /\ detectFileType(run.files[2]) # "css"
    /\ run.failCount = 1
    /\ run.successCount = 1
    /\ getOutputPath(run.files[2]) \in run.writes

(***************************************************************************)
(* C20.  Nothing is translated before the pre-scan and the AI step end.    *)
(***************************************************************************)
\* a step that translates a file or writes an output
TranslationStep ==
    \/ run'.successCount # run.successCount
    \/ run'.failCount # run.failCount
    \/ run'.writes # run.writes
    \/ fsys' # fsys

\* C20: every step that translates a file or writes a translated output is
\* taken after the pre-scan has finished and after the AI step, when it ran,
\* has completed (its translations persisted and the dictionary reloaded) or
\* failed.
C20_TranslationAfterAiStep ==
    [][TranslationStep =>
         /\ run.scanned
         /\ run.ai \in {"skipped", "completed", "failed"}
         /\ run.ai = "completed" =>
               /\ \A k \in DOMAIN run.translations :
                     /\ k \in DOMAIN run.cachedWords
                     /\ k \in DOMAIN run.dictionaryFile
               /\ dict = loadMergedDictionary(run.cachedWords)
         /\ ~run.temp]_vars

\* a file was written by a run whose AI step completed
C20_Witness ==
    /\ run.ai = "completed"
    /\ run.scanned
    /\ run.writes # {}
    /\ \E k \in DOMAIN run.translations : Truthy(dict, k)

(***************************************************************************)
(* C14.  Markup text in a source buffer.                                   *)
(***************************************************************************)
\* the text of s strictly between the '>' at offset p, which closes a tag,
\* and the next '<' or '{', at offset q
MarkupSpan(s, p, q) ==
    /\ p + 1 < q
    /\ s[p + 1] = ">"
    /\ ClosesTag(s, p)
    /\ s[q + 1] \in {"<", "{"}
    /\ \A i \in (p + 1)..(q - 1) : s[i + 1] \notin {"<", "{"}

\* C14: in the buffer translateStrings returns, no text between a tag's '>'
\* and the next '<' or '{' is left that is safe and has a dictionary entry
\* different from itself: every such span was translated, whether or not the
\* syntax-tree stage could handle the buffer.
C14_MarkupTextTranslated ==
    StringsReturned =>
        \A p, q \in 0..(Len(call.output) - 1) :
            MarkupSpan(call.output, p, q) =>
                LET trimmed == trim(substring(call.output, p + 1, q))
                IN  ~(/\ trimmed # << >>
                      /\ isSafeToTranslate(trimmed, dict)
                      /\ ~cacheHas(call.before, trimmed)
                      /\ Truthy(dict, trimmed)
                      /\ dict.entries[trimmed] # trimmed)

(***************************************************************************)
(* MissingWordsCollector: the pre-scan.  A Set of strings is the sequence  *)
(* of its members in insertion order.                                      *)
(***************************************************************************)
\* missingWords.add(word)
addWord(missingWords, word) ==
    IF \E i \in 1..Len(missingWords) : missingWords[i] = word THEN missingWords
    ELSE Append(missingWords, word)

\* the callback of words.forEach with the stripped token added unchecked
collectWord_CleanUnchecked(word, d, missingWords) ==
    With(IF word # << >> /\ isSafeToTranslate(word, d) /\ ~Truthy(d, word)
         THEN addWord(missingWords, word) ELSE missingWords,
         LAMBDA added :
            IF stripPunct(word) # << >> /\ stripPunct(word) # word
            THEN addWord(added, stripPunct(word)) ELSE added)

\* the callback of words.forEach: the token, then its stripped form
collectWord(word, d, missingWords) ==
    With(IF word # << >> /\ isSafeToTranslate(word, d) /\ ~Truthy(d, word)
         THEN addWord(missingWords, word) ELSE missingWords,
         LAMBDA added :
            IF /\ stripPunct(word) # << >>
               /\ stripPunct(word) # word
               /\ isSafeToTranslate(stripPunct(word), d)
               /\ ~Truthy(d, stripPunct(word))
            THEN addWord(added, stripPunct(word)) ELSE added)

RECURSIVE collectWords(_, _, _)
collectWords(words, d, missingWords) ==
    IF words = << >> THEN missingWords
    ELSE collectWords(Tail(words), d, collectWord(Head(words), d, missingWords))

\* the block run on a whole string, a trimmed text, an attribute value or a
\* literal value
collectText(text, d, missingWords) ==
    IF text # << >> /\ isSafeToTranslate(text, d)
    THEN collectWords(splitWs(text), d,
                      IF ~Truthy(d, text) THEN addWord(missingWords, text)
                      ELSE missingWords)
    ELSE missingWords

RECURSIVE extractFromJsonObject(_, _, _)
RECURSIVE extractFromItems(_, _, _)
extractFromJsonObject(obj, d, missingWords) ==
    IF obj.t = "str" THEN collectText(obj.s, d, missingWords)
    ELSE IF obj.t \in {"arr", "obj"} THEN extractFromItems(obj.kids, d, missingWords)
    ELSE missingWords

extractFromItems(items, d, missingWords) ==
    IF items = << >> THEN missingWords
    ELSE extractFromItems(Tail(items), d, extractFromJsonObject(Head(items), d, missingWords))

\* content.replace(/>([^<]+)</g, ...) of extractFromHtml from offset from on
RECURSIVE extractTextContent(_, _, _, _)
extractTextContent(content, from, d, missingWords) ==
    With(TextNodeMatch(content, {"<"}, from), LAMBDA m :
        IF ~m.found THEN missingWords
        ELSE extractTextContent(content, m.end, d, collectText(trim(m.group), d, missingWords)))

\* content.replace(/name\s*=\s*["']([^"']*)["']/gi, ...) of extractFromHtml
RECURSIVE extractAttribute(_, _, _, _, _)
extractAttribute(content, name, from, d, missingWords) ==
    With(AttrMatch(content, name, from), LAMBDA m :
        IF ~m.found THEN missingWords
        ELSE extractAttribute(content, name, m.end, d, collectText(m.group, d, missingWords)))

extractFromHtml(content, d, missingWords) ==
    extractAttribute(content, a_aria_label, 0, d,
      extractAttribute(content, a_placeholder, 0, d,
        extractAttribute(content, a_title, 0, d,
          extractAttribute(content, a_alt, 0, d,
            extractTextContent(content, 0, d, missingWords)))))

RECURSIVE extractFromLiterals(_, _, _)
extractFromLiterals(nodes, d, missingWords) ==
    IF nodes = << >> THEN missingWords
    ELSE extractFromLiterals(Tail(nodes), d, collectText(Head(nodes).value, d, missingWords))

extractFromJavaScript(content, d, missingWords) ==
    With(parse(content), LAMBDA ast :
        IF ast.ok THEN extractFromLiterals(ast.lits, d, missingWords) ELSE missingWords)

(***************************************************************************)
(* The pre-scan of a list of files, one file a step.                       *)
(***************************************************************************)
MaxScanned == 2

Collecting(n, missingWords) ==
    [fn |-> "collectMissingWords", scanned |-> n, missing |-> missingWords]

ScanTexts ==
    { Hi, Go, HiOk, <<"O","K">>,
      <<"G","o",","," "," ","(","o","k",")","!">>,
      <<" ","G","o"," ","G","o"," ">>,
      <<"(","U","p",")"," ","1","0","%">>,
      <<"h","t","t","p",":","/","/","G","o">> }

ScanJson ==
    { JStr(x) : x \in ScanTexts }
    \cup { JObj(<<k_title, k_items>>, <<JStr(x), JArr(<<JNum(<<"7">>), JStr(y)>>)>>) :
             x \in ScanTexts, y \in {Hi, Go} }

ScanHtml ==
    { Element(<<"p">>, x) \o <<"<","i","m","g"," ">> \o AttrText(a[1], a[2]) \o <<">">> :
        x \in ScanTexts,
        a \in { <<a_alt, Go>>, <<a_title, <<"U","p","!">>>>, <<<<"i","d">>, Go>>,
                <<a_alt, << >>>> } }

ScanJs == { b \in SourceBuffers : Len(b) <= 14 }
          \cup { <<"x"," ","="," ","\"">> \o x \o <<"\"",";">> : x \in ScanTexts }

InitCollect ==
    /\ dict \in TextDicts
    /\ cache = EmptyMap
    /\ call = Collecting(0, << >>)
    /\ fsys = NoFiles
    /\ run = NoRun

ScanJsonFile ==
    /\ call.scanned < MaxScanned
    /\ \E data \in ScanJson :
         call' = Collecting(call.scanned + 1, extractFromJsonObject(data, dict, call.missing))
    /\ UNCHANGED <<dict, cache, fsys, run>>

ScanHtmlFile ==
    /\ call.scanned < MaxScanned
    /\ \E content \in ScanHtml :
         call' = Collecting(call.scanned + 1, extractFromHtml(content, dict, call.missing))
    /\ UNCHANGED <<dict, cache, fsys, run>>

ScanJsFile ==
    /\ call.scanned < MaxScanned
    /\ \E content \in ScanJs :
         call' = Collecting(call.scanned + 1, extractFromJavaScript(content, dict, call.missing))
    /\ UNCHANGED <<dict, cache, fsys, run>>

NextCollect ==
    \/ ScanJsonFile
    \/ ScanHtmlFile
    \/ ScanJsFile

SpecCollect == InitCollect /\ [][NextCollect]_vars

(***************************************************************************)
(* C15.  What the pre-scan returns.                                        *)
(***************************************************************************)
\* C15: every string in the set collectMissingWords builds is classified safe
\* by isSafeToTranslate with the merged dictionary and has no entry in that
\* dictionary, and the set holds each text once.
C15_MissingWordsSafeAndAbsent ==
    call.fn = "collectMissingWords" =>
        /\ \A i \in 1..Len(call.missing) :
              /\ isSafeToTranslate(call.missing[i], dict)
              /\ ~Truthy(dict, call.missing[i])
        /\ NoRepeat(call.missing)

\* two files were scanned; a whole string, one of its tokens and the
\* stripped form of one of its tokens were collected
C15_Witness ==
    /\ call.fn = "collectMissingWords"
    /\ call.scanned = 2
    /\ \E i, j, k \in 1..Len(call.missing) :
          LET words == splitWs(call.missing[i])
          IN  /\ Len(words) > 1
              /\ \E m \in 1..Len(words) : words[m] = call.missing[j]
              /\ \E m \in 1..Len(words) :
                    words[m] # call.missing[k] /\ stripPunct(words[m]) = call.missing[k]

(***************************************************************************)
(* KeyRotation: fetchWithRotation(urlBuilder, fetchOptions) over the keys  *)
(* of the environment, one request a step.                                 *)
(***************************************************************************)
KEYNOTVALID == <<"a","p","i"," ","k","e","y"," ","n","o","t"," ","v","a","l","i","d">>

INVALIDKEY == <<"i","n","v","a","l","i","d"," ","a","p","i"," ","k","e","y">>

PASSVALID == <<"p","l","e","a","s","e"," ","p","a","s","s"," ","a"," ","v","a","l","i","d"," ","a","p","i"," ","k","e","y">>

BODYKEY == <<"A","P","I"," ","k","e","y"," ","n","o","t"," ","v","a","l","i","d",".">>

BODYMODEL == <<"m","o","d","e","l"," ","n","o","t"," ","f","o","u","n","d">>

\* response.ok
responseOk(status) == 200 <= status /\ status <= 299

isRateLimitError(status) == status = 429

\* errorText is the body read from the response, or Undefined
isInvalidKeyError(status, errorText) ==
    \/ status = 401
    \/ status = 403
    \/ /\ status = 400
       /\ errorText # Undefined
       /\ errorText # << >>
       /\ \/ includes(toLowerCase(errorText), KEYNOTVALID)
          \/ includes(toLowerCase(errorText), INVALIDKEY)
          \/ includes(toLowerCase(errorText), PASSVALID)

shouldRotateKey(status, errorText) ==
    isRateLimitError(status) \/ isInvalidKeyError(status, errorText)

\* rotateToNextKey without the wrap to the first key
rotateToNextKey_NoWrap(currentKeyIndex, keys) == currentKeyIndex + 1

\* rotateToNextKey()
rotateToNextKey(currentKeyIndex, keys) ==
    IF keys = 0 THEN currentKeyIndex ELSE (currentKeyIndex + 1) % keys

Fetching(keys, currentKeyIndex, attempts, lastError) ==
    [fn |-> "fetchWithRotation", st |-> "called", keys |-> keys,
     currentKeyIndex |-> currentKeyIndex, attempts |-> attempts,
     lastError |-> lastError, status |-> 0]

MaxKeys == 3

\* the statuses a request is answered with
Statuses == {200, 204, 400, 401, 403, 404, 429, 500, 503}

\* the bodies of the answers that are not ok; Undefined when reading it throws
Bodies == { Undefined, << >>, BODYKEY, BODYMODEL }

InitFetch ==
    /\ dict = Dict(EmptyMap)
    /\ cache = EmptyMap
    /\ fsys = NoFiles
    /\ run = NoRun
    /\ call \in { Fetching(n, 0, 0, -1) : n \in 0..MaxKeys }
                 \cup { Fetching(n, i, 0, -1) : n \in 1..MaxKeys, i \in 0..(MaxKeys - 1) }
    /\ call.currentKeyIndex < call.keys \/ call.currentKeyIndex = 0

\* apiKeys.length === 0
FetchWithoutKeys ==
    /\ call.fn = "fetchWithRotation" /\ call.st = "called"
    /\ call.keys = 0
    /\ call' = [call EXCEPT !.st = "threw"]
    /\ UNCHANGED <<dict, cache, fsys, run>>

\* one turn of the loop: the request is answered
FetchAnswered ==
    /\ call.fn = "fetchWithRotation" /\ call.st = "called"
    /\ call.keys > 0 /\ call.attempts < call.keys
    /\ \E status \in Statuses, errorText \in Bodies :
         call' = IF responseOk(status)
                 THEN [call EXCEPT !.st = "returned", !.status = status]
                 ELSE IF shouldRotateKey(status, errorText)
                 THEN [call EXCEPT
                         !.lastError = status,
                         !.currentKeyIndex = rotateToNextKey(@, call.keys),
                         !.attempts = @ + 1]
                 ELSE [call EXCEPT !.st = "returned", !.status = status]
    /\ UNCHANGED <<dict, cache, fsys, run>>

\* one turn of the loop: fetch throws, a TypeError naming fetch or another
\* error
FetchThrows ==
    /\ call.fn = "fetchWithRotation" /\ call.st = "called"
    /\ call.keys > 0 /\ call.attempts < call.keys
    /\ \E network \in BOOLEAN :
         call' = IF network
                 THEN [call EXCEPT
                         !.lastError = 0,
                         !.currentKeyIndex = rotateToNextKey(@, call.keys),
                         !.attempts = @ + 1]
                 ELSE [call EXCEPT !.st = "threw"]
    /\ UNCHANGED <<dict, cache, fsys, run>>

\* the loop ends: every key failed
FetchAllKeysFailed ==
    /\ call.fn = "fetchWithRotation" /\ call.st = "called"
    /\ call.keys > 0 /\ call.attempts >= call.keys
    /\ call' = [call EXCEPT !.st = "threw"]
    /\ UNCHANGED <<dict, cache, fsys, run>>

NextFetch ==
    \/ FetchWithoutKeys
    \/ FetchAnswered
    \/ FetchThrows
    \/ FetchAllKeysFailed

SpecFetch == InitFetch /\ [][NextFetch]_vars

(***************************************************************************)
(* C16.  What fetchWithRotation hands to its caller.                       *)
(***************************************************************************)
\* C16: fetchWithRotation returns only a Response whose ok flag is true; in
\* every other case it throws.
C16_ReturnsOnlyOk ==
    (call.fn = "fetchWithRotation" /\ call.st = "returned") => responseOk(call.status)

(***************************************************************************)
(* C17.  Unsafe string leaves of a JSON document.                          *)
(***************************************************************************)
\* C17: a string leaf that isSafeToTranslate classifies as unsafe for the
\* dictionary in use (and that the cache does not hold) comes out of
\* translateJson unchanged, also when some of its tokens have dictionary
\* entries.
C17_UnsafeLeafUnchanged ==
    (/\ call.fn = "translateObject"
     /\ ~cacheHas(call.before, call.input)
     /\ ~isSafeToTranslate(call.input, dict))
        => call.output = call.input

(***************************************************************************)
(* C19.  Tokens with punctuation in the word fallback.                     *)
(***************************************************************************)
WordFns == {"translateWord", "translateWordExact"}

\* the punctuation characters of a token, in order
punctOf(word) == SelectSeq(word, LAMBDA ch : ch \in PunctCh)

\* the token has no hit of its own, and its stripped form is non-empty,
\* differs from it and is a dictionary key, exact or lowercase
StrippedHit(d, word) ==
    /\ ~Truthy(d, word)
    /\ ~Truthy(d, toLowerCase(word))
    /\ stripPunct(word) # << >>
    /\ stripPunct(word) # word
    /\ Truthy(d, stripPunct(word)) \/ Truthy(d, toLowerCase(stripPunct(word)))

\* C19: in the word fallback a token without a hit of its own whose stripped
\* form is a dictionary key (exact or lowercase) comes out with the stripped
\* form replaced by the dictionary value and every punctuation character kept
\* in its place.
C19_PunctuationKept ==
    (call.fn \in WordFns /\ StrippedHit(dict, call.input)) =>
        /\ punctOf(call.output) = punctOf(call.input)
        /\ stripPunct(call.output) = WholeStringEntry(dict, stripPunct(call.input))
        /\ includes(call.input, stripPunct(call.input)) =>
              call.output = replaceFirst(call.input, stripPunct(call.input),
                                         WholeStringEntry(dict, stripPunct(call.input)))

(***************************************************************************)
(* Text between tags with whitespace around it, in an HTML document and in *)
(* a source buffer (in a comment and in a template literal, which the      *)
(* syntax-tree stage leaves alone).                                        *)
(***************************************************************************)
MaxPad == 2

Pads == SeqsUpTo({" ", "\n"}, MaxPad)

PaddedTexts ==
    { lead \o core \o trail :
        lead \in Pads, trail \in Pads,
        core \in { Hi, HiOk, <<"n","o">>, <<"H","i","\t"," ","G","o">> } }

PaddedHtml ==
    { Element(tag, text) : tag \in { <<"p">>, <<"s","t","y","l","e">> }, text \in PaddedTexts }

PaddedSource ==
    { <<"/","/"," ">> \o Element(<<"p">>, text) : text \in PaddedTexts }
    \cup { <<"w"," ","="," ",BackTick>> \o Element(<<"b">>, text) \o <<BackTick,";">> :
             text \in PaddedTexts }

InitPadded ==
    /\ dict \in { Dict(Restrict(TextEntries, {Hi})), Dict(TextEntries) }
    /\ cache = EmptyMap
    /\ call \in { Called("translateHtml", doc) : doc \in PaddedHtml }
                \cup { Called("translateStrings", buffer) : buffer \in PaddedSource }
    /\ fsys = NoFiles
    /\ run = NoRun

NextPadded ==
    \/ TranslateHtml
    \/ TranslateStrings

SpecPadded == InitPadded /\ [][NextPadded]_vars

(***************************************************************************)
(* C18.  The whitespace around a translated text.                          *)
(***************************************************************************)
\* the replacements of the text pass of the call that returned
SpanEdits ==
    IF HtmlReturned THEN call.textEdits
    ELSE IF StringsReturned THEN call.jsxEdits
    ELSE << >>

\* the text of a matched span: what lies between its '>' and its '<'
SpanText(span) == substring(span, 1, Len(span) - 1)

\* C18: every span between > and < that the text pass translated comes out as
\* the leading whitespace run of the original text, the translation of the
\* trimmed text and the trailing whitespace run of the original text, in
\* translateHtml and in the markup pass of translateStrings.
C18_WhitespaceKeptAround ==
    \A i \in 1..Len(SpanEdits) :
        LET e    == SpanEdits[i]
            text == SpanText(e.old)
        IN  e.new # e.old =>
              /\ cacheHas(cache, e.candidate)
              /\ e.new = <<">">> \o substring(text, 0, LeadingWs(text))
                         \o cache[e.candidate]
                         \o substringFrom(text, Len(text) - TrailingWs(text))
                         \o <<"<">>
              /\ SubSeq(call.output, e.at + 1, e.at + Len(e.new)) = e.new

\* a text with whitespace on both sides was translated, in a document or in
\* a buffer
C18_Witness ==
    /\ Len(SpanEdits) = 1
    /\ SpanEdits[1].new # SpanEdits[1].old
    /\ LeadingWs(SpanText(SpanEdits[1].old)) = 2
    /\ TrailingWs(SpanText(SpanEdits[1].old)) = 1
    /\ StringsReturned

C22_MissingWordsUnresolvable ==
    call.fn = "collectMissingWords" =>
        \A i \in 1..Len(call.missing) :
            /\ ~Truthy(dict, call.missing[i])
            /\ ~Truthy(dict, toLowerCase(call.missing[i]))

(***************************************************************************)
(* KeyRotation over a sequence of calls: currentKeyIndex is module state   *)
(* and outlives each call of fetchWithRotation and makeApiCallWithRotation.*)
(* used is the sequence of the key indices the call in progress has made   *)
(* a request with.                                                         *)
(***************************************************************************)
MaxCalls == 2

RotationFns == {"fetchWithRotation", "makeApiCallWithRotation"}

\* the texts of the errors apiCallFn rejects with
ErrorTexts == { BODYKEY, BODYMODEL }

Rotation(fn, st, keys, currentKeyIndex) ==
    [fn |-> fn, st |-> st, keys |-> keys, currentKeyIndex |-> currentKeyIndex,
     attempts |-> 0, used |-> << >>, startIndex |-> currentKeyIndex,
     prevGood |-> -1, ok |-> FALSE, calls |-> 0]

InitRotation ==
    /\ dict = Dict(EmptyMap)
    /\ cache = EmptyMap
    /\ fsys = NoFiles
    /\ run = NoRun
    /\ call \in { Rotation("none", "idle", n, 0) : n \in 0..MaxKeys }

\* the call has used one more key, which failed in a way that rotates
rotated(c) ==
    [c EXCEPT !.used = Append(@, c.currentKeyIndex),
              !.currentKeyIndex = rotateToNextKey(@, c.keys),
              !.attempts = @ + 1]

\* the call has used one more key and ends
ended(c, st, good) ==
    [c EXCEPT !.used = Append(@, c.currentKeyIndex), !.st = st, !.ok = good]

\* a call of either function begins
RotationCall ==
    /\ call.st \in {"idle", "returned", "threw"}
    /\ call.calls < MaxCalls
    /\ \E fn \in RotationFns :
         call' = [call EXCEPT
                    !.fn = fn, !.st = "called", !.attempts = 0, !.used = << >>,
                    !.startIndex = call.currentKeyIndex,
                    !.prevGood = IF call.st = "returned" /\ call.ok
                                 THEN call.currentKeyIndex ELSE -1,
                    !.ok = FALSE, !.calls = @ + 1]
    /\ UNCHANGED <<dict, cache, fsys, run>>

\* apiKeys.length === 0, in either function
RotationWithoutKeys ==
    /\ call.st = "called"
    /\ call.keys = 0
    /\ call' = [call EXCEPT !.st = "threw"]
    /\ UNCHANGED <<dict, cache, fsys, run>>

\* fetchWithRotation, one turn of the loop: the request is answered
RotationFetchAnswered ==
    /\ call.fn = "fetchWithRotation" /\ call.st = "called"
    /\ call.keys > 0 /\ call.attempts < call.keys
    /\ \E status \in Statuses, errorText \in Bodies :
         call' = IF responseOk(status) THEN ended(call, "returned", TRUE)
                 ELSE IF shouldRotateKey(status, errorText) THEN rotated(call)
                 ELSE ended(call, "returned", FALSE)
    /\ UNCHANGED <<dict, cache, fsys, run>>

\* fetchWithRotation, one turn of the loop: fetch throws, a TypeError naming
\* fetch or another error
RotationFetchThrows ==
    /\ call.fn = "fetchWithRotation" /\ call.st = "called"
    /\ call.keys > 0 /\ call.attempts < call.keys
    /\ \E network \in BOOLEAN :
         call' = IF network THEN rotated(call) ELSE ended(call, "threw", FALSE)
    /\ UNCHANGED <<dict, cache, fsys, run>>

\* makeApiCallWithRotation, one turn of the loop: apiCallFn resolves
RotationApiCallResolves ==
    /\ call.fn = "makeApiCallWithRotation" /\ call.st = "called"
    /\ call.keys > 0 /\ call.attempts < call.keys
    /\ call' = ended(call, "returned", TRUE)
    /\ UNCHANGED <<dict, cache, fsys, run>>

\* makeApiCallWithRotation, one turn of the loop: apiCallFn rejects, with an
\* error that carries a status or with one that does not
RotationApiCallRejects ==
    /\ call.fn = "makeApiCallWithRotation" /\ call.st = "called"
    /\ call.keys > 0 /\ call.attempts < call.keys
    /\ \E hasStatus \in BOOLEAN, status \in Statuses, errorText \in ErrorTexts :
         call' = IF hasStatus /\ shouldRotateKey(status, errorText) THEN rotated(call)
                 ELSE ended(call, "threw", FALSE)
    /\ UNCHANGED <<dict, cache, fsys, run>>

\* the loop of either function ends: every key failed
RotationAllKeysFailed ==
    /\ call.st = "called"
    /\ call.keys > 0 /\ call.attempts >= call.keys
    /\ call' = [call EXCEPT !.st = "threw"]
    /\ UNCHANGED <<dict, cache, fsys, run>>

NextRotation ==
    \/ RotationCall
    \/ RotationWithoutKeys
    \/ RotationFetchAnswered
    \/ RotationFetchThrows
    \/ RotationApiCallResolves
    \/ RotationApiCallRejects
    \/ RotationAllKeysFailed

SpecRotation == InitRotation /\ [][NextRotation]_vars

(***************************************************************************)
(* C23.  The keys a failing call has tried.                                *)
(***************************************************************************)
\* C23: with N >= 1 keys a call of fetchWithRotation never makes more than N
\* requests, and whenever it throws it has made exactly one request with each
\* of the N keys, in cyclic order from the key that was current when the call
\* began.
C23_ThrowsAfterEveryKey ==
    (call.fn = "fetchWithRotation" /\ call.keys >= 1) =>
        /\ Len(call.used) <= call.keys
        /\ call.st = "threw" =>
              /\ Len(call.used) = call.keys
              /\ \A i \in 1..Len(call.used) :
                    call.used[i] = (call.startIndex + i - 1) % call.keys

(***************************************************************************)
(* C29.  currentKeyIndex across calls.                                     *)
(***************************************************************************)
\* C29: with N >= 1 keys currentKeyIndex is within 0..N-1 after every step of
\* every sequence of calls of the two functions; when a call returns a
\* successful result the index is that of the key that produced it, and the
\* next call makes its first request with that key.
C29_IndexInRangeAndSticky ==
    call.keys >= 1 =>
        /\ call.currentKeyIndex \in 0..(call.keys - 1)
        /\ (call.st = "returned" /\ call.ok) =>
              call.currentKeyIndex = call.used[Len(call.used)]
        /\ (call.prevGood >= 0 /\ call.used # << >>) => call.used[1] = call.prevGood

\* a call rotated to the next key and succeeded with it, and the call after
\* it has made its first request with that key
C29_Witness ==
    /\ call.keys = 3
    /\ call.calls = 2
    /\ call.prevGood = 1
    /\ call.used # << >>
    /\ call.st = "returned" /\ call.ok
    /\ call.fn = "makeApiCallWithRotation"

(***************************************************************************)
(* One run, one cache: a sequence of resolutions by the JSON, HTML and     *)
(* code translators over the dictionary of the run, the cache empty at the *)
(* start.  run.first keeps, for every string resolved so far, what its     *)
(* first resolution gave.                                                  *)
(***************************************************************************)
MaxResolutions == 3

HiGo == <<"H","i"," ","G","o">>

\* a translation of two words with two spaces between them
TwoWords == Ar2 \o <<" ", " ">> \o Ar3

\* a dictionary with a key resolved through its lowercase form, a key that
\* maps to its own text and a key with a translation of two words
SharedEntries == (hi :> Ar1) @@ (Go :> Go) @@ (ok :> TwoWords)

SharedDicts == { Dict(Restrict(SharedEntries, K)) : K \in SUBSET DOMAIN SharedEntries }

SharedTexts == { Hi, hi, Go, ok, HiCall, HiGo }

SharedFns == {"translateObject", "translateText", "Literal", "jsxText"}

SharedRun(n, first, last) ==
    [api |-> "sharedCache", n |-> n, first |-> first, last |-> last]

\* the strings the next resolution is given: a string of a file, or what the
\* resolution before gave
nextTexts(c) == SharedTexts \cup (IF c = Idle THEN {} ELSE {c.output})

\* the run after one more resolution
resolvedOnce(r, text, output, c) ==
    SharedRun(r.n + 1,
              IF text \in DOMAIN r.first THEN r.first ELSE (text :> output) @@ r.first,
              c)

InitShared ==
    /\ dict \in SharedDicts
    /\ cache = EmptyMap
    /\ call = Idle
    /\ fsys = NoFiles
    /\ run = SharedRun(0, EmptyMap, Idle)

\* translateJson reaches a string leaf
SharedJsonLeaf ==
    /\ run.n < MaxResolutions
    /\ \E text \in nextTexts(call) :
         \E r \in { translateObject(JStr(text), dict, cache, FALSE) } :
            /\ call' = Resolving("translateObject", text, r.val.s, cache)
            /\ cache' = r.cache
            /\ run' = resolvedOnce(run, text, r.val.s, call)
    /\ UNCHANGED <<dict, fsys>>

\* translateHtml reaches the text of an element or an attribute
SharedHtmlText ==
    /\ run.n < MaxResolutions
    /\ \E text \in nextTexts(call) :
         \E r \in { translateText(text, dict, cache) } :
            /\ call' = Resolving("translateText", text, r.text, cache)
            /\ cache' = r.cache
            /\ run' = resolvedOnce(run, text, r.text, call)
    /\ UNCHANGED <<dict, fsys>>

\* translateStrings visits a string literal
SharedLiteral ==
    /\ run.n < MaxResolutions
    /\ \E text \in nextTexts(call) :
         \E r \in { literalOutcome(text, dict, cache) } :
            /\ call' = Resolving("Literal", text, r.text, cache)
            /\ cache' = r.cache
            /\ run' = resolvedOnce(run, text, r.text, call)
    /\ UNCHANGED <<dict, fsys>>

\* translateStrings reaches the text between two tags
SharedJsxText ==
    /\ run.n < MaxResolutions
    /\ \E text \in nextTexts(call) :
         \E r \in { jsxOutcome(text, dict, cache) } :
            /\ call' = Resolving("jsxText", text, r.text, cache)
            /\ cache' = r.cache
            /\ run' = resolvedOnce(run, text, r.text, call)
    /\ UNCHANGED <<dict, fsys>>

NextShared ==
    \/ SharedJsonLeaf
    \/ SharedHtmlText
    \/ SharedLiteral
    \/ SharedJsxText

SpecShared == InitShared /\ [][NextShared]_vars

(***************************************************************************)
(* C24.  The cache holds no entry from a string to itself.                 *)
(***************************************************************************)
\* C24: after any sequence of resolutions by the three translators that
\* starts with an empty cache, whatever the dictionary, no cache entry maps
\* a string to itself.
C24_NoSelfMapping ==
    \A text \in DOMAIN cache : cache[text] # text

(***************************************************************************)
(* C25.  A string resolves the same way throughout a run.                  *)
(***************************************************************************)
\* C25: in one run (one dictionary, the cache empty at the start) every
\* resolution of a string, by any of the translators, gives what the first
\* resolution of that exact string in the run gave.
C25_SameResultInRun ==
    (call.fn \in SharedFns /\ call.input \in DOMAIN run.first) =>
        call.output = run.first[call.input]

(***************************************************************************)
(* C28.  Unsafe text is not replaced in HTML or code, whatever the cache   *)
(* holds.                                                                  *)
(***************************************************************************)
\* C28: in one run with the shared cache, a text that isSafeToTranslate
\* rejects for the dictionary of the run comes out of the HTML translator
\* and of the code translator as it went in, whatever earlier resolutions
\* of the run have cached.
C28_UnsafeNeverReplaced ==
    (/\ call.fn \in {"translateText", "Literal", "jsxText"}
     /\ ~isSafeToTranslate(call.input, dict)) =>
        call.output = call.input

(***************************************************************************)
(* C26.  Template literals without interpolation.                          *)
(***************************************************************************)
\* the template literal of the statement  w = `Hi`;
TemplateHi == <<BackTick>> \o Hi \o <<BackTick>>

\* C26: a template literal without interpolation whose content is safe to
\* translate and is a key of the dictionary is rewritten by translateStrings
\* as the quoted literal with the same content is: the output has the
\* translation between backticks in its place.
C26_TemplateLiteralTranslated ==
    (/\ StringsReturned
     /\ call.parsed
     /\ Truthy(dict, Hi)
     /\ isSafeToTranslate(Hi, dict)
     /\ includes(call.input, TemplateHi)) =>
        /\ includes(call.output, <<BackTick>> \o dict.entries[Hi] \o <<BackTick>>)
        /\ ~includes(call.output, TemplateHi)

(***************************************************************************)
(* C27.  Resolving what a resolution gave.                                 *)
(***************************************************************************)
\* no key of d occurs in a value of d or in the lowercase form of a value
ValuesMatchNoKey(d) ==
    \A k \in DOMAIN d.entries, key \in DOMAIN d.entries :
        /\ ~includes(d.entries[k], key)
        /\ ~includes(toLowerCase(d.entries[k]), key)

\* C27: with a dictionary whose values contain no text that matches one of
\* its keys, a translator that is given what its own resolution before gave
\* returns it as it is: resolve(resolve(S)) = resolve(S).
C27_ResolveIdempotent ==
    (/\ ValuesMatchNoKey(dict)
     /\ call.fn \in SharedFns
     /\ run.last # Idle
     /\ run.last.fn = call.fn
     /\ call.input = run.last.output) =>
        call.output = call.input

====
